---- MODULE Spec2Model ----
(***************************************************************************)
(* Workflow engine: the compiler (LangGraphBuilder.build), the node        *)
(* executor wrapper (both implementations: LangGraphBuilder._node_wrapper  *)
(* and node_factory._node_wrapper), the state reducers, and the            *)
(* orchestrator facade run_workflow_streaming with its three cooperating   *)
(* tasks (graph task, sub-workflow listener, consumer loop).               *)
(*                                                                         *)
(* The execution engine is driven the way the compiled graph is driven:    *)
(* in supersteps.  Every node triggered for a superstep is invoked on the  *)
(* state as it was when the superstep began, the partial updates of the    *)
(* superstep are merged through the reducers when all its nodes have       *)
(* returned, and a node is triggered for the next superstep when a node    *)
(* with an edge into it returned in this one.  The engine reports          *)
(* on_chain_start / on_chain_end per node invocation and on_graph_end      *)
(* once at the end.                                                        *)
(***************************************************************************)
EXTENDS Bags, Integers, Sequences, FiniteSets, TLC

VARIABLES
    call,         \* the call of a helper function under study, when one is studied alone
    doc,          \* the workflow document of the run (list of StepSpec)
    impl,         \* which node wrapper wraps the nodes: "builder" | "factory"
    gstate,       \* GraphState as merged so far
    step,         \* number of supersteps of the graph committed so far
    active,       \* nodes triggered for the current superstep
    running,      \* nodes of the superstep that started and did not return yet
    streamed,     \* <<node, iteration>> of the running workflow nodes whose
                  \* sub-graph events were forwarded (iteration 0: not mapped)
    updates,      \* node -> partial update, for the nodes that returned
    routed,       \* router -> chosen destination, for the routers that returned
    pending,      \* node -> wrapper result, while its except branch re-runs the handler
    gpc,          \* graph task: "init" | "run" | "ended" | "done" | "raised"
    lpc,          \* sub-workflow listener task: "listen" | "done"
    cpc,          \* consumer loop: "loop" | "stopping" | "gather" | "finished"
    merged,       \* merged_stream_queue
    event_queue,  \* the auxiliary sub-workflow event queue of the resources
    yielded,      \* events yielded to the caller so far
    trace,        \* history: engine events <<kind, node>> in emission order
    execs,        \* history: one record per node invocation that returned
    emitted,      \* history: the events put on the auxiliary queue by emit_event
    COMPILED_WORKFLOW_CACHE,  \* workflow name -> compiled sub-graph
    lookups,      \* history: one record per sub-workflow lookup that returned
    manager_keys, \* ApiKeyManager.keys: the entries {"key", "is_active"}
    current_key_index,  \* ApiKeyManager.current_key_index: <<>> is None, <<i>> position i
    env_file,     \* the GEMINI_API_KEY lines of the .env file
    api_key,      \* the key genai.configure was last given
    client_calls, \* the concurrent calls of GeminiClient.call_gemini_async
    rotated,      \* history: one record per rotate_to_next_key call of a client task
    workflow_definition,     \* PipelineOrchestrator: the steps given to the constructor
    execution_order,         \* PipelineOrchestrator.execution_order
    context,                 \* the keys of TurnContext._data
    available_context_keys,  \* run: the keys seen in the context at a batch boundary
    steps_to_run,            \* run: the steps not yet put in a batch
    batch,                   \* run: the batch being gathered, task by task
    executed,                \* history: one record per executor.execute call that ran
    ppc           \* PipelineOrchestrator: "new" | "ValueError" | "ready" | "loop" |
                  \* "gather" | "complete" | "RuntimeError" | "StepError"

vars == <<call, doc, impl, step, gstate, active, running, streamed, updates, routed, pending,
          gpc, lpc, cpc, merged, event_queue, yielded, trace, execs, emitted,
          COMPILED_WORKFLOW_CACHE, lookups,
          manager_keys, current_key_index, env_file, api_key, client_calls, rotated,
          workflow_definition, execution_order, context, available_context_keys,
          steps_to_run, batch, executed, ppc>>

\* The state of the language-model client and its key manager.
llmvars == <<manager_keys, current_key_index, env_file, api_key, client_calls, rotated>>

\* The state of the legacy PipelineOrchestrator and of its run.
pipevars == <<workflow_definition, execution_order, context, available_context_keys,
              steps_to_run, batch, executed, ppc>>

----------------------------------------------------------------------------
(* Values held in workflow_data.  t is the Python type of the value:       *)
(* "none" (None), "str", "int", "dict" (the mapping {label: s}), "map" (a  *)
(* mapping m of keys to values) or "list" (the list l of values).          *)

EmptyMap == [k \in {} |-> ""]

NoneV == [t |-> "none", s |-> "", l |-> <<>>, m |-> EmptyMap]
StrV(x) == [t |-> "str", s |-> x, l |-> <<>>, m |-> EmptyMap]
IntV(i) == [t |-> "int", s |-> ToString(i), l |-> <<>>, m |-> EmptyMap]
DictV(x) == [t |-> "dict", s |-> x, l |-> <<>>, m |-> EmptyMap]
ListV(q) == [t |-> "list", s |-> "", l |-> q, m |-> EmptyMap]
MapV(f) == [t |-> "map", s |-> "", l |-> <<>>, m |-> f]
\* A byte blob of n bytes.
BytesV(n) == [t |-> "bytes", s |-> ToString(n), l |-> <<>>, m |-> EmptyMap]

\* str(value), as the router's conditional function applies it.
PyStr(v) ==
    CASE v.t = "none" -> "None"
      [] v.t \in {"str", "int"} -> v.s
      [] v.t \in {"dict", "map"} -> "{...}"
      [] v.t = "bytes" -> "b'...'"
      [] OTHER -> "[...]"

\* dict.get(key): None when the key is absent.
DictGet(d, k) == IF k \in DOMAIN d THEN d[k] ELSE NoneV

\* isinstance(value, dict), and the value as a mapping of keys to values.
IsDict(v) == v.t \in {"dict", "map"}
AsMapping(v) == IF v.t = "dict" THEN [k \in {"label"} |-> StrV(v.s)] ELSE v.m

RECURSIVE sanitize_for_json(_)
sanitize_for_json(data) ==
    CASE data.t = "map" -> MapV([k \in DOMAIN data.m |-> sanitize_for_json(data.m[k])])
      [] data.t = "list" -> ListV([i \in DOMAIN data.l |-> sanitize_for_json(data.l[i])])
      [] data.t = "bytes" -> StrV("<bytes of length " \o data.s \o ">")
      [] OTHER -> data

\* A key string is held as the sequence of its tokens: a dot ".", a quote
\* "'", or a run of other characters; Concat gives the string itself.
RECURSIVE Concat(_)
Concat(tokens) == IF tokens = <<>> THEN "" ELSE Head(tokens) \o Concat(Tail(tokens))

\* The place of the first dot of key_string.
FirstDot(key_string) ==
    CHOOSE i \in DOMAIN key_string :
        key_string[i] = "." /\ \A j \in 1..(i - 1) : key_string[j] # "."

\* state_data is a mapping of keys to values.
RECURSIVE _resolve_value_from_state(_, _)
_resolve_value_from_state(state_data, key_string) ==
    IF Concat(key_string) = "item" THEN DictGet(state_data, "item")
    ELSE IF \E i \in DOMAIN key_string : key_string[i] = "." THEN
        LET parent_key == SubSeq(key_string, 1, FirstDot(key_string) - 1)
            child_key == SubSeq(key_string, FirstDot(key_string) + 1, Len(key_string))
            parent_value == DictGet(state_data, Concat(parent_key)) IN
        IF IsDict(parent_value)
        THEN _resolve_value_from_state(AsMapping(parent_value), child_key)
        ELSE NoneV
    ELSE IF key_string # <<>> /\ Head(key_string) = "'" /\ key_string[Len(key_string)] = "'"
    THEN StrV(Concat(SubSeq(key_string, 2, Len(key_string) - 1)))
    ELSE DictGet(state_data, Concat(key_string))

----------------------------------------------------------------------------
(* State type and reducers.                                                *)

\* A partial update; a key the node did not return is the empty value of
\* its reducer.  {} is EmptyUpdate.
EmptyUpdate ==
    [workflow_data |-> EmptyMap, debug_log |-> <<>>,
     error_info |-> <<>>, execution_log |-> <<>>]

\* Mutant of merge_workflow_data: the update replaces the mapping.
merge_workflow_data_replacing(left, right) == right

merge_workflow_data(left, right) ==
    [k \in DOMAIN left \cup DOMAIN right |->
        IF k \in DOMAIN right THEN right[k] ELSE left[k]]

\* Mutant of ApplyUpdate: error_info is replaced instead of concatenated.
ApplyUpdateReplacesErrors(state, upd) ==
    [workflow_data |-> merge_workflow_data(state.workflow_data, upd.workflow_data),
     debug_log |-> state.debug_log \o upd.debug_log,
     error_info |-> upd.error_info,
     execution_log |-> state.execution_log \o upd.execution_log]

\* GraphState: the reducer of each field applied to the state and an update.
ApplyUpdate(state, upd) ==
    [workflow_data |-> merge_workflow_data(state.workflow_data, upd.workflow_data),
     debug_log |-> state.debug_log \o upd.debug_log,
     error_info |-> state.error_info \o upd.error_info,
     execution_log |-> state.execution_log \o upd.execution_log]

RECURSIVE ApplyAll(_, _, _)
\* The updates ups of the nodes listed in order, merged into state.
ApplyAll(state, order, ups) ==
    IF order = <<>> THEN state
    ELSE ApplyAll(ApplyUpdate(state, ups[Head(order)]), Tail(order), ups)

----------------------------------------------------------------------------
(* Workflow documents.  A StepSpec carries name, type, dependencies and    *)
(* its params; outs is the set of values the step's handler can return     *)
(* (the handlers are external: custom code, a model call, an HTTP call).   *)

NoRoutes == [k \in {} |-> "END"]
NoMapping == [k \in {} |-> ""]

CodeStep(name, deps, okey, outs) ==
    [name |-> name, type |-> "code", dependencies |-> deps,
     output_key |-> okey, map_input |-> <<>>, input_mapping |-> {},
     condition_key |-> <<>>, routing_map |-> NoRoutes,
     workflow_name |-> "", output_mapping |-> NoMapping, outs |-> outs]

\* input_mapping is held as pairs <<state key, local name>>.
LlmStep(name, deps, okey, inputs, outs) ==
    [CodeStep(name, deps, okey, outs) EXCEPT !.type = "llm", !.input_mapping = inputs]

MappedStep(name, deps, okey, src, outs) ==
    [CodeStep(name, deps, okey, outs) EXCEPT !.map_input = src]

RouterStep(name, deps, key, map) ==
    [CodeStep(name, deps, "", {}) EXCEPT
        !.type = "conditional_router", !.condition_key = key, !.routing_map = map]

WorkflowStep(name, deps, wf, inmap, outmap) ==
    [CodeStep(name, deps, "", {}) EXCEPT
        !.type = "workflow", !.workflow_name = wf,
        !.input_mapping = inmap, !.output_mapping = outmap]

OneOutput == {DictV("x")}
Labels == {DictV("support"), DictV("sales"), DictV("other")}
Routes == [k \in {"support", "sales", "END"} |->
             CASE k = "support" -> "path_s" [] k = "sales" -> "path_q" [] OTHER -> "END"]

\* Bounds of the model: the length of the linear chain and the longest
\* list a mapped step is given.
ChainLen == 3
MaxItems == 2

\* The number of supersteps the engine runs before it gives up; the
\* engine's default is larger.
recursion_limit == 8

\* S1/S6: a linear chain s1 -> s2 -> ... of ChainLen steps.
DocChain ==
    [i \in 1..ChainLen |->
        CodeStep("s" \o ToString(i),
                 IF i = 1 THEN {} ELSE {"k" \o ToString(i - 1)},
                 "k" \o ToString(i), OneOutput)]

ItemsOf(k) == [i \in 1..k |-> StrV("p" \o ToString(i))]

\* S2: c has the two producers a and b, both fed from the start.
DocJoin ==
    << CodeStep("a", {}, "ka", OneOutput),
       CodeStep("b", {}, "kb", OneOutput),
       CodeStep("c", {"ka", "kb"}, "kc", OneOutput) >>

\* b has the two producers a and a2, and a2 itself reads a.
DocSkew ==
    << CodeStep("a", {}, "ka", OneOutput),
       CodeStep("a2", {"ka"}, "ka2", OneOutput),
       CodeStep("b", {"ka", "ka2"}, "kb", OneOutput) >>

\* S3: a router on classify's label; its targets declare no dependencies.
DocRouter ==
    << CodeStep("classify", {}, "cls", Labels),
       RouterStep("route", {"cls"}, <<"cls", ".", "label">>, Routes),
       CodeStep("path_s", {}, "ks", OneOutput),
       CodeStep("path_q", {}, "kq", OneOutput) >>

\* As DocRouter, and the target path_q declares the key it reads.
DocRouterDep ==
    << CodeStep("classify", {}, "cls", Labels),
       RouterStep("route", {"cls"}, <<"cls", ".", "label">>, Routes),
       CodeStep("path_s", {}, "ks", OneOutput),
       CodeStep("path_q", {"cls"}, "kq", OneOutput) >>

\* S4: a step mapped over the list another step returns.
DocMap ==
    << CodeStep("src", {}, "items",
                {ListV(ItemsOf(k)) : k \in 0..MaxItems} \cup {ListV(<<NoneV>>), StrV("p")}),
       MappedStep("each", {"items"}, "km", <<"items">>, {DictV("x"), DictV("y")}) >>

\* A model call whose only input is a label of the previous step's output.
DocLlm ==
    << CodeStep("s1", {}, "k1", {DictV("x"), StrV("x")}),
       LlmStep("ask", {"k1"}, "k2", {<< <<"k1", ".", "label">>, "label" >>}, OneOutput) >>

\* S5: outer embeds the sub-workflow "inner"; after reads what it projects.
DocOuter ==
    << WorkflowStep("outer", {}, "inner", {<< <<"text">>, "text" >>}, [k \in {"ik2"} |-> "ko"]),
       CodeStep("after", {"ko"}, "kz", OneOutput) >>

\* A workflow step mapped over a list of two items: each iteration embeds
\* "inner" with the item as its text.
DocMapOuter ==
    << CodeStep("src", {}, "items", {ListV(ItemsOf(2))}),
       [WorkflowStep("fan", {"items"}, "inner", {<< <<"item">>, "text" >>},
                     [k \in {"ik2"} |-> "ko"])
           EXCEPT !.map_input = <<"items">>, !.output_key = "kf"] >>

\* Two steps produce the same key: a and b both write ka, which c reads.
DocDup ==
    << CodeStep("a", {}, "ka", {DictV("x")}),
       CodeStep("b", {}, "ka", {DictV("y")}),
       CodeStep("c", {"ka"}, "kc", OneOutput) >>

\* b declares, beside the key a produces, a key that no step produces.
DocGhost ==
    << CodeStep("a", {}, "ka", OneOutput),
       CodeStep("b", {"ka", "ghost"}, "kb", OneOutput) >>

\* A router that targets the earlier step classify: on "support" the run
\* goes back to classify, on "sales" it ends.
DocLoop ==
    << CodeStep("start", {}, "k0", OneOutput),
       CodeStep("classify", {"k0"}, "cls", Labels),
       RouterStep("route", {"cls"}, <<"cls", ".", "label">>,
                  [k \in {"support", "sales"} |-> IF k = "support" THEN "classify" ELSE "END"]) >>

\* load returns a list with one byte blob; each is mapped over it and reads
\* the item as its input blob.
DocBlob ==
    << CodeStep("load", {}, "file", {ListV(<<BytesV(3)>>)}),
       [MappedStep("each", {"file"}, "km", <<"file">>, OneOutput)
           EXCEPT !.input_mapping = {<< <<"item">>, "blob" >>}] >>

\* A workflow step that declares an output_key beside its output_mapping.
DocOuterKey ==
    << [WorkflowStep("outer", {}, "inner", {<< <<"text">>, "text" >>}, [k \in {"ik2"} |-> "ko"])
           EXCEPT !.output_key = "kw"] >>

\* The sub-workflow package "inner": a chain of two steps.
DocInner ==
    << CodeStep("i1", {}, "ik1", OneOutput),
       CodeStep("i2", {"ik1"}, "ik2", OneOutput) >>

Docs == {DocChain, DocJoin, DocSkew, DocRouter, DocRouterDep, DocMap, DocLlm, DocOuter,
         DocMapOuter, DocDup, DocGhost, DocLoop, DocBlob, DocOuterKey}

\* <workflows_root>/<name>/workflow.yaml
SubWorkflowDoc(name) == DocInner

----------------------------------------------------------------------------
(* The compiler: LangGraphBuilder.build.                                   *)

Range(f) == {f[x] : x \in DOMAIN f}
StepNames(d) == {d[i].name : i \in 1..Len(d)}
StepByName(d, n) == d[CHOOSE i \in 1..Len(d) : d[i].name = n]

\* The keys step st produces: its output_key and, for a workflow step, the
\* values of its output_mapping.
ProducedKeys(st) ==
    (IF st.output_key # "" THEN {st.output_key} ELSE {})
    \cup (IF st.type = "workflow" THEN Range(st.output_mapping) ELSE {})

\* _build_output_map: key -> producing step; a later step overwrites an
\* earlier one.
output_to_step_map(d) ==
    LET keys == UNION {ProducedKeys(d[i]) : i \in 1..Len(d)}
        last(k) == CHOOSE i \in 1..Len(d) :
                      /\ k \in ProducedKeys(d[i])
                      /\ \A j \in 1..Len(d) : k \in ProducedKeys(d[j]) => j <= i
    IN [k \in keys |-> d[last(k)].name]

\* Every value of every router's routing_map (END included).
router_targets(d) ==
    UNION {Range(d[i].routing_map) : i \in {j \in 1..Len(d) : d[j].type = "conditional_router"}}

\* The nodes that produce the dependencies of st.
source_nodes(d, st) ==
    {output_to_step_map(d)[dep] : dep \in st.dependencies \cap DOMAIN output_to_step_map(d)}

\* add_edge(START, step)
StartNodes(d) ==
    {d[i].name : i \in {j \in 1..Len(d) :
        d[j].dependencies = {} /\ d[j].name \notin router_targets(d)}}

\* add_edge(source, step), one edge per producer of a dependency.
Edges(d) ==
    {e \in StepNames(d) \X StepNames(d) :
        LET st == StepByName(d, e[2])
        IN st.dependencies # {} /\ e[1] \in source_nodes(d, st)}

\* The router's conditional function.
conditional_func(st, state) ==
    PyStr(_resolve_value_from_state(state.workflow_data, st.condition_key))

----------------------------------------------------------------------------
(* Node logic handlers.  beh is what the external collaborator does on     *)
(* this invocation: raise, or return out; for a workflow step, sub is the  *)
(* final state of the embedded run; done is the rank at which the          *)
(* invocation completes among the concurrent iterations of a mapped step.  *)
(* A handler returns (output, resolved inputs, extra records) or raises.   *)

Raised(kind, sub_step) ==
    [raised |-> TRUE, kind |-> kind, sub_step |-> sub_step, value |-> NoneV,
     inputs |-> NoneV, logs |-> <<>>]
Returned(value, inputs, logs) ==
    [raised |-> FALSE, kind |-> "", sub_step |-> "", value |-> value,
     inputs |-> inputs, logs |-> logs]

\* {name: _resolve_value_from_state(context_data, key) for ... in input_mapping}
\* (pairs <<state key, local name>>): resolved_inputs of a llm or code
\* handler, sub_initial_data of a workflow handler.
sub_initial_data(st, context_data) ==
    [sk \in {p[2] : p \in st.input_mapping} |->
        _resolve_value_from_state(context_data,
            (CHOOSE p \in st.input_mapping : p[2] = sk)[1])]

\* The inputs an api handler reports, for a step that sets none of them.
api_inputs ==
    MapV(("method" :> StrV("GET")) @@ ("endpoint" :> StrV(""))
         @@ ("headers" :> MapV(EmptyMap)) @@ ("body" :> MapV(EmptyMap)))

_llm_logic(st, context_data, beh) ==
    IF \A p \in st.input_mapping : _resolve_value_from_state(context_data, p[1]) = NoneV
    THEN Raised("ValueError", "")
    ELSE IF beh.raise THEN Raised("APIError", "")
    ELSE Returned(beh.out, MapV(sub_initial_data(st, context_data)), <<>>)

_code_logic(st, context_data, beh) ==
    IF beh.raise THEN Raised("HandlerError", "")
    ELSE Returned(beh.out, MapV(sub_initial_data(st, context_data)), <<>>)

_api_logic(st, context_data, beh) ==
    IF beh.raise THEN Raised("HTTPStatusError", "") ELSE Returned(beh.out, api_inputs, <<>>)

\* Mutant of _workflow_logic: the errors of the sub-run are not looked at.
_workflow_logic_ignoring_errors(st, context_data, beh) ==
    IF beh.raise THEN Raised("FileNotFoundError", "")
    ELSE LET om == st.output_mapping
             parent_outputs ==
                 [pk \in Range(om) |->
                     DictGet(beh.sub.workflow_data, CHOOSE sk \in DOMAIN om : om[sk] = pk)]
         IN Returned(MapV(parent_outputs), MapV(sub_initial_data(st, context_data)),
                     beh.sub.debug_log)

\* final_sub_state is beh.sub, the state sub_graph.ainvoke returns.
_workflow_logic(st, context_data, beh) ==
    IF beh.raise THEN Raised("FileNotFoundError", "")
    ELSE IF beh.sub.error_info # <<>>
    THEN Raised("RuntimeError", beh.sub.error_info[1].failed_step)
    ELSE LET om == st.output_mapping
             parent_outputs ==
                 [pk \in Range(om) |->
                     DictGet(beh.sub.workflow_data, CHOOSE sk \in DOMAIN om : om[sk] = pk)]
         IN Returned(MapV(parent_outputs), MapV(sub_initial_data(st, context_data)),
                     beh.sub.debug_log)

logic_func(st, context_data, beh) ==
    CASE st.type = "llm" -> _llm_logic(st, context_data, beh)
      [] st.type = "code" -> _code_logic(st, context_data, beh)
      [] st.type = "api" -> _api_logic(st, context_data, beh)
      [] OTHER -> _workflow_logic(st, context_data, beh)

----------------------------------------------------------------------------
(* The node executor wrapper, in its two implementations.  A wrapper call  *)
(* yields the update it returns, the number of handler invocations it      *)
(* made, whether an error was raised inside it, and whether the fail-fast  *)
(* gate skipped the node.                                                  *)

DebugRecord(st, status, inputs, outputs) ==
    [step_name |-> st.name, type |-> st.type, status |-> status, is_child |-> FALSE,
     inputs |-> inputs, outputs |-> outputs]

ChildRecord(st, i, n, inputs, output) ==
    [step_name |-> st.name \o " [Run " \o ToString(i) \o "/" \o ToString(n) \o "]",
     type |-> "mapped_" \o st.type, status |-> "Completed", is_child |-> TRUE,
     inputs |-> inputs, outputs |-> output]

ErrorRecord(st, kind, sub_step) ==
    [failed_step |-> st.name, message |-> kind, sub_step |-> sub_step]

\* Mutant of Gated: the gate logs a record for the node it skips.
GatedLogsSkip ==
    [update |-> [EmptyUpdate EXCEPT !.debug_log =
                    <<[step_name |-> "", type |-> "", status |-> "Skipped", is_child |-> FALSE,
                       inputs |-> MapV(EmptyMap), outputs |-> MapV(EmptyMap)]>>],
     calls |-> 0, raised |-> FALSE, gated |-> TRUE]

\* if state.get("error_info"): return {}
Gated == [update |-> EmptyUpdate, calls |-> 0, raised |-> FALSE, gated |-> TRUE]

\* return {"workflow_data": outputs, "debug_log": [debug_record] + additional_logs}
Completed(st, sanitized_inputs, outputs, additional_logs, calls) ==
    [update |-> [EmptyUpdate EXCEPT !.workflow_data = outputs,
                    !.debug_log = <<DebugRecord(st, "Completed", sanitized_inputs,
                                                MapV(outputs))>> \o additional_logs],
     calls |-> calls, raised |-> FALSE, gated |-> FALSE]

\* Mutant of Failure: the failed node writes a null under its output_key.
FailureWritesNull(st, sanitized_inputs, kind, sub_step, calls) ==
    [update |-> [EmptyUpdate EXCEPT !.workflow_data = st.output_key :> NoneV,
                    !.debug_log = <<DebugRecord(st, "Failed", sanitized_inputs,
                                                MapV(EmptyMap))>>,
                    !.error_info = <<ErrorRecord(st, kind, sub_step)>>],
     calls |-> calls, raised |-> TRUE, gated |-> FALSE]

\* return {"debug_log": [debug_record], "error_info": [{"failed_step": ..}]}
Failure(st, sanitized_inputs, kind, sub_step, calls) ==
    [update |-> [EmptyUpdate EXCEPT !.debug_log = <<DebugRecord(st, "Failed", sanitized_inputs,
                                                               MapV(EmptyMap))>>,
                    !.error_info = <<ErrorRecord(st, kind, sub_step)>>],
     calls |-> calls, raised |-> TRUE, gated |-> FALSE]

\* {**workflow_data, "item": item} and {**workflow_data, "item": item, "map_index": index}
BuilderItemContext(wd, item) ==
    IF item # NoneV THEN merge_workflow_data(wd, "item" :> item) ELSE wd
FactoryItemContext(wd, item, index) ==
    merge_workflow_data(wd, ("item" :> item) @@ ("map_index" :> IntV(index)))

\* The iterations of a mapped step in the order they complete.
CompletionOrder(res, behs) ==
    [k \in DOMAIN res |-> CHOOSE i \in DOMAIN res : behs[i].done = k]

\* The results of the iterations as they arrive: each with the position of
\* its awaitable among the arguments of gather.
Completions(res, behs) ==
    [k \in DOMAIN res |->
        [index |-> CompletionOrder(res, behs)[k],
         result |-> res[CompletionOrder(res, behs)[k]]]]

\* Mutant of gather: the results in the order in which the awaitables
\* complete.
gather_as_completed(res, behs) ==
    [k \in DOMAIN res |-> Completions(res, behs)[k].result]

\* results = await asyncio.gather(*tasks): the results in the order of the
\* awaitables passed, whatever the order in which they complete.
gather(res, behs) ==
    [i \in DOMAIN res |->
        Completions(res, behs)[CHOOSE k \in DOMAIN res :
                                   Completions(res, behs)[k].index = i].result]

\* The index of the iteration whose exception asyncio.gather hands on: the
\* first one to raise.
FirstRaised(res, behs) ==
    CHOOSE i \in DOMAIN res :
        /\ res[i].raised
        /\ \A j \in DOMAIN res : res[j].raised => behs[i].done <= behs[j].done

\* What a handler closure of LangGraphBuilder returns first for an item:
\* (output, ...) if item is not None else ({params['output_key']: output}, ...)
BuilderItemOutput(st, item, r) ==
    IF item = NoneV /\ st.type # "workflow"
    THEN MapV(st.output_key :> r.value)
    ELSE r.value

RECURSIVE ConcatLogs(_)
ConcatLogs(res) ==
    IF res = <<>> THEN <<>> ELSE Head(res).logs \o ConcatLogs(Tail(res))

\* What an external collaborator does when it raises, and when it returns
\* nothing of interest; retry tells, for the first behaviour of a node
\* invocation, whether the collaborator returns when the except branch of
\* LangGraphBuilder._node_wrapper invokes the handler again.
NoBeh == [raise |-> TRUE, out |-> NoneV, sub |-> EmptyUpdate, done |-> 1, retry |-> FALSE]
ReturnsBeh == [NoBeh EXCEPT !.raise = FALSE]

NoInputs == MapV("error" :> StrV("Could not resolve inputs before failure."))

\* sanitized_inputs = { "map_source": map_input_key, "item_count": len(items_to_process) }
MapInputs(st, n) ==
    MapV(("map_source" :> StrV(Concat(st.map_input))) @@ ("item_count" :> IntV(n)))

\* The except branch of LangGraphBuilder._node_wrapper: sanitized_inputs is
\* still empty, so the handler is invoked again with item None; beh is what
\* its collaborator does this time.  The closure sanitizes the inputs it
\* returns, and it raises when a step other than a workflow has no
\* output_key.
RecoveredInputs(st, state, beh) ==
    LET r == logic_func(st, state.workflow_data, beh) IN
    IF r.raised \/ (st.type # "workflow" /\ st.output_key = "")
    THEN NoInputs
    ELSE sanitize_for_json(r.inputs)

\* LangGraphBuilder._node_wrapper.  The map_input that is no list fails
\* before any handler runs, so behs[1] is the behaviour of the invocation
\* the except branch makes.
BuilderWrappedNode(st, state, behs) ==
    IF state.error_info # <<>> THEN Gated
    ELSE
    LET workflow_data == state.workflow_data
        again == RecoveredInputs(st, state, IF behs[1].retry THEN ReturnsBeh ELSE NoBeh)
    IN
    IF st.map_input # <<>> THEN
        LET items_to_process == _resolve_value_from_state(workflow_data, st.map_input) IN
        IF items_to_process.t # "list"
        THEN Failure(st, RecoveredInputs(st, state, behs[1]), "TypeError", "", 1)
        ELSE
        LET n == Len(items_to_process.l)
            tasks == [i \in 1..n |->
                logic_func(st, BuilderItemContext(workflow_data, items_to_process.l[i]), behs[i])]
            results == gather(tasks, behs)
        IN  IF \E i \in 1..n : tasks[i].raised
            THEN LET f == tasks[FirstRaised(tasks, behs)]
                 IN Failure(st, again, f.kind, f.sub_step, n + 1)
            ELSE IF st.output_key = "" THEN Failure(st, again, "KeyError", "", n + 1)
            ELSE Completed(st, MapInputs(st, n),
                     st.output_key :> ListV([i \in 1..n |->
                         BuilderItemOutput(st, items_to_process.l[i], results[i])]),
                     <<>>, n)
    ELSE
        LET r == logic_func(st, workflow_data, behs[1]) IN
        IF r.raised THEN Failure(st, again, r.kind, r.sub_step, 2)
        ELSE IF st.type = "workflow"
        THEN Completed(st, sanitize_for_json(r.inputs), r.value.m, r.logs, 1)
        ELSE IF st.output_key = "" THEN Failure(st, again, "KeyError", "", 2)
        ELSE Completed(st, sanitize_for_json(r.inputs), st.output_key :> r.value, r.logs, 1)

\* node_factory._node_wrapper.
FactoryWrappedNode(st, state, behs) ==
    IF state.error_info # <<>> THEN Gated
    ELSE
    LET workflow_data == state.workflow_data IN
    IF st.map_input # <<>> THEN
        LET items_to_process == _resolve_value_from_state(workflow_data, st.map_input) IN
        IF items_to_process.t # "list" THEN Failure(st, NoInputs, "TypeError", "", 0)
        ELSE
        LET n == Len(items_to_process.l)
            tasks == [i \in 1..n |->
                logic_func(st, FactoryItemContext(workflow_data, items_to_process.l[i], i - 1), behs[i])]
            results == gather(tasks, behs)
            detailed_records ==
                [i \in 1..n |-> ChildRecord(st, i, n, results[i].inputs, results[i].value)]
        IN  IF \E i \in 1..n : tasks[i].raised
            THEN LET f == tasks[FirstRaised(tasks, behs)]
                 IN Failure(st, NoInputs, f.kind, f.sub_step, n)
            ELSE IF st.output_key = "" THEN Failure(st, NoInputs, "KeyError", "", n)
            ELSE Completed(st, MapInputs(st, n),
                           st.output_key :> ListV([i \in 1..n |-> results[i].value]),
                           ConcatLogs(results) \o detailed_records, n)
    ELSE
        LET r == logic_func(st, workflow_data, behs[1]) IN
        IF r.raised THEN Failure(st, NoInputs, r.kind, r.sub_step, 1)
        ELSE Completed(st, sanitize_for_json(r.inputs),
                       IF st.output_key # "" THEN st.output_key :> r.value ELSE r.value.m,
                       r.logs, 1)

\* Mutant of wrapped_node: the wrapper has no fail-fast gate.
wrapped_node_ungated(im, st, state, behs) ==
    IF im = "builder" THEN BuilderWrappedNode(st, [state EXCEPT !.error_info = <<>>], behs)
    ELSE FactoryWrappedNode(st, [state EXCEPT !.error_info = <<>>], behs)

wrapped_node(im, st, state, behs) ==
    IF im = "builder" THEN BuilderWrappedNode(st, state, behs)
    ELSE FactoryWrappedNode(st, state, behs)

\* How many handler behaviours one invocation of the node consumes.
Invocations(st, state) ==
    LET items == _resolve_value_from_state(state.workflow_data, st.map_input) IN
    IF st.map_input # <<>> /\ items.t = "list" /\ Len(items.l) > 0 THEN Len(items.l) ELSE 1

----------------------------------------------------------------------------
(* Handler behaviours and embedded runs.                                   *)

\* What the handler of a llm, code or api step can do on one invocation.
PlainBehaviours(st) ==
    {[b EXCEPT !.retry = r] :
        b \in {NoBeh} \cup {[ReturnsBeh EXCEPT !.out = o] : o \in st.outs}, r \in BOOLEAN}

RECURSIVE RunChain(_, _, _, _)
\* The final state of running the chain d from state: one node per
\* superstep, each update merged through the reducers before the next node.
RunChain(im, d, state, behs) ==
    IF d = <<>> THEN state
    ELSE RunChain(im, Tail(d),
                  ApplyUpdate(state, wrapped_node(im, Head(d), state, <<Head(behs)>>).update),
                  Tail(behs))

ChainEvent(event, name, output) == [event |-> event, name |-> name, output |-> output]

RECURSIVE ChainNodeEvents(_, _, _, _)
ChainNodeEvents(im, d, state, behs) ==
    IF d = <<>> THEN <<ChainEvent("on_graph_end", "__root__", state)>>
    ELSE LET upd == wrapped_node(im, Head(d), state, <<Head(behs)>>).update
         IN << ChainEvent("on_chain_start", Head(d).name, EmptyUpdate),
               ChainEvent("on_chain_end", Head(d).name, upd) >>
            \o ChainNodeEvents(im, Tail(d), ApplyUpdate(state, upd), Tail(behs))

\* The events sub_graph.astream_events yields for one run of the chain.
ChainEvents(im, d, state, behs) ==
    <<ChainEvent("on_chain_start", "__root__", EmptyUpdate)>>
    \o ChainNodeEvents(im, d, state, behs)

\* The behaviours of the handlers of one run of a chain, a step at a time.
\* Inside a sub-workflow a collaborator that raises also raises when the
\* handler is invoked again.
ChainBehaviours(d) ==
    {b \in [1..Len(d) -> UNION {PlainBehaviours(d[i]) : i \in 1..Len(d)}] :
        \A i \in 1..Len(d) : b[i] \in PlainBehaviours(d[i]) /\ ~b[i].retry}

\* sub_initial_state = {"workflow_data": sub_initial_data}
sub_initial_state(st, context_data) ==
    [EmptyUpdate EXCEPT !.workflow_data = sub_initial_data(st, context_data)]

\* What the handler of step st can do on one invocation in context_data.
\* The handler of a workflow step that failed fails again when the except
\* branch of the wrapper invokes it once more.
Behaviours(im, st, context_data) ==
    IF st.type = "workflow"
    THEN {NoBeh} \cup
         {[ReturnsBeh EXCEPT
              !.sub = RunChain(im, SubWorkflowDoc(st.workflow_name),
                               sub_initial_state(st, context_data), b)] :
             b \in ChainBehaviours(SubWorkflowDoc(st.workflow_name))}
    ELSE PlainBehaviours(st)

\* Mutant of _compile_sub_workflow: the graph is compiled and stored on
\* every lookup.
_compile_sub_workflow_always(cache, name, builds) ==
    LET compiled_graph == [name |-> name, build |-> builds + 1] IN
    [graph |-> compiled_graph, compiled |-> TRUE,
     cache |-> [k \in DOMAIN cache \cup {name} |->
                   IF k = name THEN compiled_graph ELSE cache[k]]]

\* One lookup of a sub-workflow whose package exists: the cached graph, or
\* a newly built one, stored.  Each build yields a new graph object; builds
\* is the number of builds so far.
_compile_sub_workflow(cache, name, builds) ==
    IF name \in DOMAIN cache
    THEN [graph |-> cache[name], compiled |-> FALSE, cache |-> cache]
    ELSE LET compiled_graph == [name |-> name, build |-> builds + 1] IN
         [graph |-> compiled_graph, compiled |-> TRUE,
          cache |-> cache @@ (name :> compiled_graph)]

\* The cache and the history after one more lookup of name.
LookedUp(name) ==
    LET r == _compile_sub_workflow(COMPILED_WORKFLOW_CACHE, name,
                 Cardinality({i \in 1..Len(lookups) : lookups[i].compiled}))
    IN /\ COMPILED_WORKFLOW_CACHE' = r.cache
       /\ lookups' = Append(lookups, [name |-> name, graph |-> r.graph, compiled |-> r.compiled])

\* {"type": "sub_workflow_event", "data": {...}}, as _workflow_logic emits it.
SubWorkflowEvent(st, event, index) ==
    [type |-> "sub_workflow_event",
     data |-> [parent_step |-> st.name, sub_workflow |-> st.workflow_name,
               original_event |-> event, map_index |-> index]]

RepackageAll(st, events, index) ==
    [i \in 1..Len(events) |-> SubWorkflowEvent(st, events[i], index)]

\* The iterations of workflow node st that run their sub-graph in state:
\* 0 for the single invocation of a step that is not mapped.
StreamSlots(st, state) ==
    LET items == _resolve_value_from_state(state.workflow_data, st.map_input) IN
    IF st.type # "workflow" \/ state.error_info # <<>> THEN {}
    ELSE IF st.map_input = <<>> THEN {0}
    ELSE IF items.t = "list" THEN 1..Len(items.l)
    ELSE {}

\* context_data of iteration i of step st.
IterationContext(im, st, state, i) ==
    LET wd == state.workflow_data
        items == _resolve_value_from_state(wd, st.map_input)
    IN IF i = 0 THEN wd
       ELSE IF im = "builder" THEN BuilderItemContext(wd, items.l[i])
       ELSE FactoryItemContext(wd, items.l[i], i - 1)

\* The map_index the forwarded events of iteration i carry: the index
\* argument of the closure, or context_data.get("map_index").
MapIndex(im, context_data, i) ==
    IF im = "builder" THEN (IF i = 0 THEN NoneV ELSE IntV(i - 1))
    ELSE DictGet(context_data, "map_index")

\* The behaviours of the handler invocations of one invocation of node st.
\* A sub-workflow package is there for every iteration or for none; retry
\* is set only where the outcome of the invocation depends on it.
NodeBehaviours(im, st, state) ==
    LET n == Invocations(st, state)
        slot(i) == IF st.map_input # <<>> /\ i \in StreamSlots(st, state) THEN i ELSE 0
        all == UNION {Behaviours(im, st, IterationContext(im, st, state, slot(i))) : i \in 1..n}
    IN {b \in [1..n -> all] :
          /\ \A i \in 1..n : b[i] \in Behaviours(im, st, IterationContext(im, st, state, slot(i)))
          /\ st.type = "workflow" => \A i, j \in 1..n : b[i].raise = b[j].raise
          /\ \A i \in 1..n : b[i].retry =>
                /\ i = 1
                /\ LET ranked == [j \in 1..n |-> [b[j] EXCEPT !.done = j]] IN
                   wrapped_node(im, st, state, ranked)
                      # wrapped_node(im, st, state, [ranked EXCEPT ![1].retry = FALSE])}

----------------------------------------------------------------------------
(* One run of run_workflow_streaming.                                      *)

\* full_initial_state of the caller.
InitialState == [EmptyUpdate EXCEPT !.workflow_data = "text" :> StrV("hello")]

NoneItem == [source |-> "None"]
NoneEvent == [type |-> "None"]

GraphItem(event, name, output) ==
    [source |-> "graph", payload |-> ChainEvent(event, name, output)]

Upper(status) ==
    CASE status = "Completed" -> "COMPLETED"
      [] status = "Failed" -> "FAILED"
      [] OTHER -> "RUNNING"

\* The nodes of set S in the order build() added them.
RECURSIVE InOrder(_, _)
InOrder(d, S) ==
    IF d = <<>> THEN <<>>
    ELSE (IF Head(d).name \in S THEN <<Head(d).name>> ELSE <<>>) \o InOrder(Tail(d), S)

\* History record of one node invocation: the state it was given, the
\* behaviours of the handler invocations, what the node returned.
ExecRecord(st, behs, res, route) ==
    [name |-> st.name, type |-> st.type, state |-> gstate, behs |-> behs,
     update |-> res.update, calls |-> res.calls, raised |-> res.raised,
     gated |-> res.gated, route |-> route]

\* A task woken by a put on the auxiliary queue runs before the graph task
\* resumes from its next suspension: the event loop runs ready tasks in the
\* order they became ready.
ListenerIdle == event_queue = <<>> \/ lpc = "done"

\* No language-model client is studied: no key file, no call.
NoClient ==
    /\ manager_keys = <<>>
    /\ current_key_index = <<>>
    /\ env_file = <<>>
    /\ api_key = ""
    /\ client_calls = <<>>
    /\ rotated = <<>>

\* No PipelineOrchestrator is studied.
NoPipeline ==
    /\ workflow_definition = <<>>
    /\ execution_order = <<>>
    /\ context = {}
    /\ available_context_keys = {}
    /\ steps_to_run = <<>>
    /\ batch = <<>>
    /\ executed = <<>>
    /\ ppc = "new"

\* No helper function is studied alone.
NoCall == [fn |-> "", args |-> <<>>, ret |-> NoneV, done |-> FALSE]

\* The state after construction, for a document of the set D.
InitOf(D) ==
    /\ call = NoCall
    /\ NoClient
    /\ NoPipeline
    /\ doc \in D
    /\ impl \in {"builder", "factory"}
    /\ step = 0
    /\ gstate = InitialState
    /\ active = {}
    /\ running = {}
    /\ streamed = {}
    /\ updates = [n \in {} |-> EmptyUpdate]
    /\ routed = [n \in {} |-> "END"]
    /\ pending = [n \in {} |-> [behs |-> <<>>, res |-> Gated]]
    /\ gpc = "init"
    /\ lpc = "listen"
    /\ cpc = "loop"
    /\ merged = <<>>
    /\ event_queue = <<>>
    /\ yielded = <<>>
    /\ trace = <<>>
    /\ execs = <<>>
    /\ emitted = <<>>
    /\ COMPILED_WORKFLOW_CACHE = EmptyMap
    /\ lookups = <<>>

Init == InitOf(Docs)

\* graph.astream_events begins: the root's start event, and the nodes with
\* an edge from START are triggered.
GraphStart ==
    /\ gpc = "init"
    /\ gpc' = "run"
    /\ active' = StartNodes(doc)
    /\ merged' = Append(merged, GraphItem("on_chain_start", "__root__", EmptyUpdate))
    /\ trace' = Append(trace, <<"on_chain_start", "__root__">>)
    /\ UNCHANGED <<llmvars, pipevars, call, doc, impl, step, gstate, running, streamed, updates, routed, pending, lpc, cpc,
                   event_queue, yielded, execs, emitted,
                   COMPILED_WORKFLOW_CACHE, lookups>>

NodeStart(n) ==
    /\ gpc = "run"
    /\ ListenerIdle
    /\ n \in active
    /\ n \notin running
    /\ n \notin DOMAIN updates
    /\ running' = running \cup {n}
    /\ merged' = Append(merged, GraphItem("on_chain_start", n, EmptyUpdate))
    /\ trace' = Append(trace, <<"on_chain_start", n>>)
    /\ UNCHANGED <<llmvars, pipevars, call, doc, impl, step, gstate, active, streamed, updates, routed, pending, gpc, lpc, cpc,
                   event_queue, yielded, execs, emitted,
                   COMPILED_WORKFLOW_CACHE, lookups>>

\* Iteration i of a workflow node past the gate: sub_graph.astream_events
\* runs the sub-graph and every event of it is put on the auxiliary queue.
SubStream(n, i) ==
    LET st == StepByName(doc, n)
        d == SubWorkflowDoc(st.workflow_name)
        context_data == IterationContext(impl, st, gstate, i)
    IN
    /\ gpc = "run"
    /\ ListenerIdle
    /\ n \in running
    /\ n \notin DOMAIN pending
    /\ <<n, i>> \notin streamed
    /\ \E b \in ChainBehaviours(d) :
          LET events == RepackageAll(st,
                            ChainEvents(impl, d, sub_initial_state(st, context_data), b),
                            MapIndex(impl, context_data, i))
          IN /\ event_queue' = event_queue \o events
             /\ emitted' = emitted \o events
    /\ streamed' = streamed \cup {<<n, i>>}
    /\ LookedUp(st.workflow_name)
    /\ UNCHANGED <<llmvars, pipevars, call, doc, impl, step, gstate, active, running, updates, routed, pending, gpc, lpc, cpc,
                   merged, yielded, trace, execs>>

\* The node's function returns: the engine reports on_chain_end and keeps
\* the update for the merge at the end of the superstep.
Return(n, behs, res) ==
    /\ updates' = updates @@ (n :> res.update)
    /\ merged' = Append(merged, GraphItem("on_chain_end", n, res.update))
    /\ execs' = Append(execs, ExecRecord(StepByName(doc, n), behs, res, ""))
    /\ running' = running \ {n}
    /\ streamed' = {x \in streamed : x[1] # n}
    /\ trace' = Append(trace, <<"on_chain_end", n>>)

\* The event batches the except branch of LangGraphBuilder._node_wrapper
\* forwards when it invokes the handler of a failed workflow node again
\* (item and index None): none when the package is missing, so that the
\* invocation raises before it streams, else one more run of the sub-graph.
RetryStreams(st, behs, res) ==
    IF impl = "builder" /\ st.type = "workflow" /\ res.raised /\ ~behs[1].raise
    THEN {RepackageAll(st, ChainEvents(impl, SubWorkflowDoc(st.workflow_name),
                                       sub_initial_state(st, gstate.workflow_data), b),
                       NoneV) :
             b \in ChainBehaviours(SubWorkflowDoc(st.workflow_name))}
    ELSE {<<>>}

\* The orders in which n concurrent iterations can complete, as the rank of
\* each iteration.
Ranks(n) == {r \in [1..n -> 1..n] : \A i, j \in 1..n : r[i] = r[j] => i = j}

\* A wrapped node runs its handler(s) and builds its update.  An iteration
\* of a workflow node has forwarded the events of its sub-graph unless the
\* package is missing.
NodeEnd(n) ==
    LET st == StepByName(doc, n) IN
    /\ gpc = "run"
    /\ ListenerIdle
    /\ n \in running
    /\ n \notin DOMAIN pending
    /\ st.type # "conditional_router"
    /\ \E bs \in NodeBehaviours(impl, st, gstate),
          rank \in Ranks(Invocations(st, gstate)) :
          LET behs == [i \in DOMAIN bs |-> [bs[i] EXCEPT !.done = rank[i]]]
              res == wrapped_node(impl, st, gstate, behs) IN
          /\ \A i \in StreamSlots(st, gstate) :
                <<n, i>> \in streamed <=> ~behs[IF i = 0 THEN 1 ELSE i].raise
          /\ \E retry \in RetryStreams(st, behs, res) :
                IF retry = <<>>
                THEN /\ Return(n, behs, res)
                     /\ UNCHANGED <<pending, event_queue, emitted,
                                    COMPILED_WORKFLOW_CACHE, lookups>>
                ELSE /\ event_queue' = event_queue \o retry
                     /\ LookedUp(st.workflow_name)
                     /\ emitted' = emitted \o retry
                     /\ pending' = pending @@ (n :> [behs |-> behs, res |-> res])
                     /\ UNCHANGED <<updates, merged, execs, running, streamed, trace>>
    /\ UNCHANGED <<llmvars, pipevars, call, doc, impl, step, gstate, active, routed, gpc, lpc, cpc, yielded>>

\* The node whose except branch re-ran the handler returns its update.
NodeReturn(n) ==
    /\ gpc = "run"
    /\ ListenerIdle
    /\ n \in DOMAIN pending
    /\ Return(n, pending[n].behs, pending[n].res)
    /\ pending' = [m \in DOMAIN pending \ {n} |-> pending[m]]
    /\ UNCHANGED <<llmvars, pipevars, call, doc, impl, step, gstate, active, routed, gpc, lpc, cpc, event_queue, yielded, emitted,
                   COMPILED_WORKFLOW_CACHE, lookups>>

\* A router node (lambda state: state) returns the state it was given, and
\* its conditional edge picks routing_map[conditional_func(state)].
RouterEnd(n) ==
    LET st == StepByName(doc, n)
        res == [update |-> gstate, calls |-> 0, raised |-> FALSE, gated |-> FALSE]
        value == conditional_func(st, ApplyUpdate(gstate, gstate))
    IN
    /\ gpc = "run"
    /\ ListenerIdle
    /\ n \in running
    /\ st.type = "conditional_router"
    /\ value \in DOMAIN st.routing_map
    /\ updates' = updates @@ (n :> res.update)
    /\ routed' = routed @@ (n :> st.routing_map[value])
    /\ merged' = Append(merged, GraphItem("on_chain_end", n, res.update))
    /\ execs' = Append(execs, ExecRecord(st, <<>>, res, value))
    /\ running' = running \ {n}
    /\ trace' = Append(trace, <<"on_chain_end", n>>)
    /\ UNCHANGED <<llmvars, pipevars, call, doc, impl, step, gstate, active, streamed, pending, gpc, lpc, cpc, event_queue, yielded,
                   emitted,
                   COMPILED_WORKFLOW_CACHE, lookups>>

\* The conditional edge finds no entry for the value: the lookup raises
\* inside the engine, and iterating astream_events raises in the graph task.
RouterRaise(n) ==
    LET st == StepByName(doc, n)
        res == [update |-> gstate, calls |-> 0, raised |-> TRUE, gated |-> FALSE]
        value == conditional_func(st, ApplyUpdate(gstate, gstate))
    IN
    /\ gpc = "run"
    /\ ListenerIdle
    /\ n \in running
    /\ st.type = "conditional_router"
    /\ value \notin DOMAIN st.routing_map
    /\ gpc' = "raised"
    /\ execs' = Append(execs, ExecRecord(st, <<>>, res, value))
    /\ UNCHANGED <<llmvars, pipevars, call, doc, impl, step, gstate, active, running, streamed, updates, routed, pending, lpc, cpc,
                   merged, event_queue, yielded, trace, emitted,
                   COMPILED_WORKFLOW_CACHE, lookups>>

\* The nodes triggered for the next superstep: those with an edge from a
\* node that ran, and those picked by a router that ran.
Triggered ==
    ({e[2] : e \in {x \in Edges(doc) : x[1] \in active}} \cup Range(routed)) \ {"END"}

\* Every node of the superstep has returned: the updates are merged through
\* the reducers and the next nodes are triggered.  The engine runs at most
\* recursion_limit supersteps.
SuperstepCommit ==
    /\ gpc = "run"
    /\ ListenerIdle
    /\ active # {}
    /\ DOMAIN updates = active
    /\ step + 1 < recursion_limit \/ Triggered = {}
    /\ step' = step + 1
    /\ gstate' = ApplyAll(gstate, InOrder(doc, active), updates)
    /\ active' = Triggered
    /\ running' = {}
    /\ streamed' = {}
    /\ updates' = [n \in {} |-> EmptyUpdate]
    /\ routed' = [n \in {} |-> "END"]
    /\ UNCHANGED <<llmvars, pipevars, call, doc, impl, pending, gpc, lpc, cpc, merged, event_queue, yielded, trace,
                   execs, emitted, COMPILED_WORKFLOW_CACHE, lookups>>

\* Nodes are still triggered after recursion_limit supersteps: the engine
\* raises, and iterating astream_events raises in the graph task.
GraphRecursionError ==
    /\ gpc = "run"
    /\ ListenerIdle
    /\ active # {}
    /\ DOMAIN updates = active
    /\ step + 1 >= recursion_limit
    /\ Triggered # {}
    /\ gpc' = "raised"
    /\ UNCHANGED <<llmvars, pipevars, call, doc, impl, step, gstate, active, running, streamed, updates, routed, pending,
                   lpc, cpc, merged, event_queue, yielded, trace, execs, emitted,
                   COMPILED_WORKFLOW_CACHE, lookups>>

\* Nothing is triggered: the engine reports the end of the graph.
GraphEnd ==
    /\ gpc = "run"
    /\ ListenerIdle
    /\ active = {}
    /\ gpc' = "ended"
    /\ merged' = Append(merged, GraphItem("on_graph_end", "__root__", gstate))
    /\ trace' = Append(trace, <<"on_graph_end", "__root__">>)
    /\ UNCHANGED <<llmvars, pipevars, call, doc, impl, step, gstate, active, running, streamed, updates, routed, pending, lpc, cpc,
                   event_queue, yielded, execs, emitted,
                   COMPILED_WORKFLOW_CACHE, lookups>>

\* stream_graph_events: await merged_stream_queue.put(None)
GraphSentinel ==
    /\ gpc = "ended"
    /\ gpc' = "done"
    /\ merged' = Append(merged, NoneItem)
    /\ UNCHANGED <<llmvars, pipevars, call, doc, impl, step, gstate, active, running, streamed, updates, routed, pending, lpc, cpc,
                   event_queue, yielded, trace, execs, emitted,
                   COMPILED_WORKFLOW_CACHE, lookups>>

\* Mutant of Listener: an event is put on the merged queue twice.
ListenerForwardsTwice ==
    /\ lpc = "listen"
    /\ event_queue # <<>>
    /\ event_queue' = Tail(event_queue)
    /\ IF Head(event_queue) = NoneEvent
       THEN lpc' = "done" /\ merged' = merged
       ELSE /\ lpc' = lpc
            /\ merged' = merged \o << [source |-> "sub_workflow", payload |-> Head(event_queue)],
                                    [source |-> "sub_workflow", payload |-> Head(event_queue)] >>
    /\ UNCHANGED <<llmvars, pipevars, call, doc, impl, step, gstate, active, running, streamed, updates, routed, pending, gpc, cpc,
                   yielded, trace, execs, emitted,
                   COMPILED_WORKFLOW_CACHE, lookups>>

\* stream_sub_workflow_events: one turn of its loop.
Listener ==
    /\ lpc = "listen"
    /\ event_queue # <<>>
    /\ event_queue' = Tail(event_queue)
    /\ IF Head(event_queue) = NoneEvent
       THEN lpc' = "done" /\ merged' = merged
       ELSE /\ lpc' = lpc
            /\ merged' = Append(merged, [source |-> "sub_workflow", payload |-> Head(event_queue)])
    /\ UNCHANGED <<llmvars, pipevars, call, doc, impl, step, gstate, active, running, streamed, updates, routed, pending, gpc, cpc,
                   yielded, trace, execs, emitted,
                   COMPILED_WORKFLOW_CACHE, lookups>>

\* Mutant of Yields: the start of a node is not reported.
YieldsWithoutRunning(item) ==
    IF item.source = "graph" THEN
        LET payload == item.payload IN
        IF payload.event = "on_chain_end" /\ payload.output.debug_log # <<>>
        THEN LET log_data == payload.output.debug_log[1] IN
             << [type |-> "log", data |-> log_data],
                [type |-> "lifecycle_update",
                 data |-> [step_name |-> log_data.step_name,
                           status |-> Upper(log_data.status)]] >>
        ELSE IF payload.event = "on_graph_end"
        THEN << [type |-> "result", data |-> payload.output] >>
        ELSE <<>>
    ELSE << item.payload >>

\* What the consumer loop yields for one item of the merged queue.
Yields(item) ==
    IF item.source = "graph" THEN
        LET payload == item.payload IN
        IF payload.event = "on_chain_start" /\ payload.name # "__root__"
        THEN << [type |-> "lifecycle_update",
                 data |-> [step_name |-> payload.name, status |-> "RUNNING"]] >>
        ELSE IF payload.event = "on_chain_end"
        THEN IF payload.output.debug_log # <<>>
             THEN LET log_data == payload.output.debug_log[1] IN
                  << [type |-> "log", data |-> log_data],
                     [type |-> "lifecycle_update",
                      data |-> [step_name |-> log_data.step_name,
                                status |-> Upper(log_data.status)]] >>
             ELSE <<>>
        ELSE IF payload.event = "on_graph_end"
        THEN << [type |-> "result", data |-> payload.output] >>
        ELSE <<>>
    ELSE << item.payload >>

\* Mutant of Consume: the loop stops at the result event instead of the
\* sentinel.
ConsumeStopsAtResult ==
    /\ cpc = "loop"
    /\ merged # <<>>
    /\ merged' = Tail(merged)
    /\ IF Head(merged) = NoneItem
       THEN cpc' = "stopping" /\ yielded' = yielded
       ELSE /\ cpc' = IF Head(merged).source = "graph" /\ Head(merged).payload.event = "on_graph_end"
                      THEN "stopping" ELSE cpc
            /\ yielded' = yielded \o Yields(Head(merged))
    /\ UNCHANGED <<llmvars, pipevars, call, doc, impl, step, gstate, active, running, streamed, updates, routed, pending, gpc, lpc,
                   event_queue, trace, execs, emitted,
                   COMPILED_WORKFLOW_CACHE, lookups>>

\* The consumer loop of run_workflow_streaming: one turn.
Consume ==
    /\ cpc = "loop"
    /\ merged # <<>>
    /\ merged' = Tail(merged)
    /\ IF Head(merged) = NoneItem
       THEN cpc' = "stopping" /\ yielded' = yielded
       ELSE cpc' = cpc /\ yielded' = yielded \o Yields(Head(merged))
    /\ UNCHANGED <<llmvars, pipevars, call, doc, impl, step, gstate, active, running, streamed, updates, routed, pending, gpc, lpc,
                   event_queue, trace, execs, emitted,
                   COMPILED_WORKFLOW_CACHE, lookups>>

\* await event_queue.put(None)
ConsumerStop ==
    /\ cpc = "stopping"
    /\ cpc' = "gather"
    /\ event_queue' = Append(event_queue, NoneEvent)
    /\ UNCHANGED <<llmvars, pipevars, call, doc, impl, step, gstate, active, running, streamed, updates, routed, pending, gpc, lpc,
                   merged, yielded, trace, execs, emitted,
                   COMPILED_WORKFLOW_CACHE, lookups>>

\* await asyncio.gather(graph_task, sub_workflow_task)
ConsumerFinish ==
    /\ cpc = "gather"
    /\ gpc = "done"
    /\ lpc = "done"
    /\ cpc' = "finished"
    /\ UNCHANGED <<llmvars, pipevars, call, doc, impl, step, gstate, active, running, streamed, updates, routed, pending, gpc, lpc,
                   merged, event_queue, yielded, trace, execs, emitted,
                   COMPILED_WORKFLOW_CACHE, lookups>>

Next ==
    \/ GraphStart
    \/ \E n \in StepNames(doc) : NodeStart(n)
    \/ \E n \in StepNames(doc) : \E i \in StreamSlots(StepByName(doc, n), gstate) : SubStream(n, i)
    \/ \E n \in StepNames(doc) : NodeEnd(n)
    \/ \E n \in StepNames(doc) : NodeReturn(n)
    \/ \E n \in StepNames(doc) : RouterEnd(n)
    \/ \E n \in StepNames(doc) : RouterRaise(n)
    \/ SuperstepCommit
    \/ GraphRecursionError
    \/ GraphEnd
    \/ GraphSentinel
    \/ Listener
    \/ Consume
    \/ ConsumerStop
    \/ ConsumerFinish

Spec == Init /\ [][Next]_vars

----------------------------------------------------------------------------
(* Vocabulary of the properties.                                           *)

\* No task of the run can take a step any more.
Quiescent == ~ENABLED Next

\* The graph has settled: gstate is the final state of the run.
GraphSettled == gpc \in {"ended", "done"}

Idx(q) == 1..Len(q)
FailedIdx(log) == {i \in Idx(log) : log[i].status = "Failed"}
ParentIdx(log, name) == {i \in Idx(log) : log[i].step_name = name /\ ~log[i].is_child}
ChildIdx(log) == {i \in Idx(log) : log[i].is_child}
ResultIdx == {i \in Idx(yielded) : yielded[i].type = "result"}

IsWrapped(e) == e.type # "conditional_router"

\* The node's handler ran at least once in invocation e.
Executed(e) == IsWrapped(e) /\ ~e.gated

\* A run-time error was raised while the wrapped node of invocation e
\* executed, told from its inputs alone: map_input did not resolve to a
\* list, a handler invocation raised, all inputs of a model call were null,
\* or the embedded run ended with errors.
ErrorRaisedIn(e) ==
    LET st == StepByName(doc, e.name)
        wd == e.state.workflow_data
        items == _resolve_value_from_state(wd, st.map_input)
    IN /\ Executed(e)
       /\ \/ st.map_input # <<>> /\ items.t # "list"
          \/ /\ st.map_input # <<>> => Len(items.l) > 0
             /\ \E i \in Idx(e.behs) :
                   \/ e.behs[i].raise
                   \/ e.behs[i].sub.error_info # <<>>
                   \/ /\ st.type = "llm"
                      /\ st.map_input = <<>>
                      /\ \A p \in st.input_mapping :
                            _resolve_value_from_state(wd, p[1]) = NoneV

----------------------------------------------------------------------------
(* C1: whenever a wrapped node is invoked in a state whose error_info is   *)
(* non-empty, it returns the empty update and its handler is not invoked:  *)
(* no workflow_data key, no debug record, no error record.                 *)
C1_FailFastGate ==
    \A i \in Idx(execs) :
        (IsWrapped(execs[i]) /\ execs[i].state.error_info # <<>>)
            => /\ execs[i].update = EmptyUpdate
               /\ execs[i].calls = 0

\* A wrapped node was invoked after an earlier node had failed.
C1_Witness ==
    \E i \in Idx(execs) :
        /\ IsWrapped(execs[i])
        /\ execs[i].state.error_info # <<>>
        /\ execs[i].update = EmptyUpdate

(* C2: for every run, the events yielded to the caller are finite in       *)
(* number, hold exactly one result event, and the result event is the      *)
(* last one: at no time is there a second result or an event after the     *)
(* result, and a run that can take no further step has yielded its result. *)
C2_ExactlyOneResultLast ==
    /\ Cardinality(ResultIdx) <= 1
    /\ \A i \in ResultIdx : i = Len(yielded)
    /\ Quiescent => Cardinality(ResultIdx) = 1

(* C3: for every pair of steps (A, B) where B declares a dependency on a   *)
(* key A produces, every on_chain_start of B comes after an on_chain_end   *)
(* of A.                                                                   *)
C3_ProducerEndsBeforeConsumerStarts ==
    \A j \in Idx(trace) :
        (trace[j][1] = "on_chain_start" /\ trace[j][2] \in StepNames(doc))
            => \A A \in source_nodes(doc, StepByName(doc, trace[j][2])) :
                  \E i \in 1..(j - 1) : trace[i] = <<"on_chain_end", A>>

(* C4: in the final state, every step that executed has exactly one        *)
(* debug record that is not a child record, and a mapped step that         *)
(* completed has one child record per element of its list.                 *)
C4_OneRecordPerStep ==
    GraphSettled =>
        \A i \in Idx(execs) :
            Executed(execs[i]) =>
                LET st == StepByName(doc, execs[i].name)
                    items == _resolve_value_from_state(execs[i].state.workflow_data, st.map_input)
                IN /\ Cardinality(ParentIdx(gstate.debug_log, st.name)) = 1
                   /\ (st.map_input # <<>> /\ ~execs[i].raised)
                        => Cardinality(ChildIdx(gstate.debug_log)) = Len(items.l)

(* C5: every run-time error raised while a wrapped node executes is caught *)
(* by the wrapper: the node returns an update with exactly one Failed      *)
(* debug record, exactly one ErrorRecord naming the step, and no           *)
(* workflow_data; the engine is not made to raise (it raises only for a    *)
(* router without a matching route and at its limit of supersteps).        *)
C5_ErrorsAreCaught ==
    \A i \in Idx(execs) :
        ErrorRaisedIn(execs[i]) =>
            LET u == execs[i].update IN
            /\ Len(u.debug_log) = 1
            /\ u.debug_log[1].status = "Failed"
            /\ u.debug_log[1].step_name = execs[i].name
            /\ Len(u.error_info) = 1
            /\ u.error_info[1].failed_step = execs[i].name
            /\ u.workflow_data = EmptyMap
            /\ (gpc = "raised" => (~IsWrapped(execs[Len(execs)]) \/ step + 1 >= recursion_limit))

\* A handler has raised inside a wrapped node and the run went on to settle.
C5_Witness ==
    /\ \E i \in Idx(execs) : ErrorRaisedIn(execs[i]) /\ execs[i].behs[1].raise
    /\ GraphSettled

(* C6: in every state of a run, error_info is non-empty exactly when       *)
(* debug_log holds a record with status Failed.                            *)
C6_ErrorInfoIffFailedRecord ==
    (gstate.error_info # <<>>) <=> (FailedIdx(gstate.debug_log) # {})

\* A node has failed and its update is merged.
C6_Witness == gstate.error_info # <<>> /\ FailedIdx(gstate.debug_log) # {}

\* A chain: no router, and every step after the first reads exactly the
\* step before it.
IsChain(d) ==
    \A i \in Idx(d) :
        /\ d[i].type # "conditional_router"
        /\ i = 1 => d[i].dependencies = {}
        /\ i > 1 => d[i].dependencies # {} /\ source_nodes(d, d[i]) = {d[i - 1].name}

PositionOf(d, name) == CHOOSE i \in Idx(d) : d[i].name = name

(* C7: in a chain in which one step's handler raises, the final state has  *)
(* exactly one Failed record (the failing step's), error_info of length 1  *)
(* naming that step, no debug record and no workflow_data key of any step  *)
(* after it; and the run cannot stop before the result event is yielded.   *)
C7_FailFastRun ==
    IsChain(doc) =>
        \A i \in Idx(execs) :
            execs[i].raised =>
                LET f == PositionOf(doc, execs[i].name) IN
                /\ GraphSettled =>
                      /\ Cardinality(FailedIdx(gstate.debug_log)) = 1
                      /\ \A k \in FailedIdx(gstate.debug_log) :
                            gstate.debug_log[k].step_name = doc[f].name
                      /\ Len(gstate.error_info) = 1
                      /\ gstate.error_info[1].failed_step = doc[f].name
                      /\ \A j \in (f + 1)..Len(doc) :
                            /\ ParentIdx(gstate.debug_log, doc[j].name) = {}
                            /\ ProducedKeys(doc[j]) \cap DOMAIN gstate.workflow_data = {}
                /\ Quiescent =>
                      /\ cpc = "finished"
                      /\ Cardinality(ResultIdx) = 1
                      /\ yielded[Len(yielded)].data = gstate

\* The second step of the three-step chain raised and the run is over.
C7_Witness ==
    /\ doc = DocChain
    /\ \E i \in Idx(execs) : execs[i].name = "s2" /\ execs[i].raised
    /\ cpc = "finished"
    /\ ResultIdx # {}

(* C8: when a router runs on a value that is no key of its routing_map,    *)
(* the router step fails with a recorded error (a Failed record and an     *)
(* ErrorRecord for the router) and the run still ends with a result event. *)
C8_RouterMissIsRecorded ==
    \A i \in Idx(execs) :
        (execs[i].type = "conditional_router"
         /\ execs[i].route \notin DOMAIN StepByName(doc, execs[i].name).routing_map
         /\ Quiescent)
            => /\ \E k \in FailedIdx(gstate.debug_log) :
                     gstate.debug_log[k].step_name = execs[i].name
               /\ \E k \in Idx(gstate.error_info) :
                     gstate.error_info[k].failed_step = execs[i].name
               /\ ResultIdx # {}

(* C9: when a router runs on a value v of its routing_map, no target of    *)
(* the router other than routing_map[v] is invoked in the run or leaves a  *)
(* debug record.                                                           *)
C9_OnlyChosenTargetRuns ==
    \A i \in Idx(execs) :
        LET st == StepByName(doc, execs[i].name) IN
        (st.type = "conditional_router" /\ execs[i].route \in DOMAIN st.routing_map)
            => \A t \in Range(st.routing_map) \ {"END", st.routing_map[execs[i].route]} :
                  /\ \A j \in Idx(trace) : trace[j] # <<"on_chain_start", t>>
                  /\ ParentIdx(gstate.debug_log, t) = {}

(* C10: a step with more than one producer executes only in a state in     *)
(* which every one of its dependency keys is present in workflow_data.     *)
C10_FanInBarrier ==
    \A i \in Idx(execs) :
        LET st == StepByName(doc, execs[i].name) IN
        (Executed(execs[i]) /\ Cardinality(source_nodes(doc, st)) > 1)
            => st.dependencies \subseteq DOMAIN execs[i].state.workflow_data

\* Invocation e is a mapped step that ran its iterations and completed.
MappedCompleted(e) ==
    /\ Executed(e)
    /\ ~e.raised
    /\ StepByName(doc, e.name).map_input # <<>>

\* The list a mapped step was given in invocation e.
MapItems(e) ==
    _resolve_value_from_state(e.state.workflow_data, StepByName(doc, e.name).map_input).l

(* C11: for a mapped step over a list L, whatever the order in which the   *)
(* iterations complete, the value written under output_key is a list of    *)
(* length |L| whose i-th element is the handler output for L[i].           *)
C11_MappedOutputInInputOrder ==
    \A k \in Idx(execs) :
        MappedCompleted(execs[k]) =>
            LET e == execs[k]
                out == e.update.workflow_data[StepByName(doc, e.name).output_key]
            IN /\ out.t = "list"
               /\ Len(out.l) = Len(MapItems(e))
               /\ \A i \in Idx(out.l) : out.l[i] = e.behs[i].out

(* C12: a successful mapped step over a list of n elements appends exactly *)
(* one parent record and exactly n child records to debug_log; for n = 0   *)
(* it writes the empty list under output_key and no child record.          *)
C12_MappedStepRecords ==
    \A k \in Idx(execs) :
        MappedCompleted(execs[k]) =>
            LET e == execs[k]
                st == StepByName(doc, e.name)
                n == Len(MapItems(e))
            IN /\ Cardinality(ParentIdx(e.update.debug_log, st.name)) = 1
               /\ Cardinality(ChildIdx(e.update.debug_log)) = n
               /\ Len(e.update.debug_log) = n + 1
               /\ n = 0 => e.update.workflow_data[st.output_key] = ListV(<<>>)

\* The yielded event at position i reports that step `name` is running.
IsRunningFor(i, name) ==
    /\ yielded[i].type = "lifecycle_update"
    /\ yielded[i].data.status = "RUNNING"
    /\ yielded[i].data.step_name = name

\* The yielded event at position j is a log event, or the report that a
\* step completed or failed.
IsOutcome(j) ==
    \/ yielded[j].type = "log"
    \/ yielded[j].type = "lifecycle_update" /\ yielded[j].data.status # "RUNNING"

(* C13: in the stream yielded to the caller, every log event and every     *)
(* lifecycle_update with status COMPLETED or FAILED comes after a          *)
(* lifecycle_update with status RUNNING that names the same step.          *)
C13_RunningFirst ==
    \A j \in Idx(yielded) :
        IsOutcome(j) => \E i \in 1..(j - 1) : IsRunningFor(i, yielded[j].data.step_name)

\* The stream holds a log event, a COMPLETED and a FAILED report.
C13_Witness ==
    /\ \E j \in Idx(yielded) : yielded[j].type = "log"
    /\ \E j \in Idx(yielded) :
          yielded[j].type = "lifecycle_update" /\ yielded[j].data.status = "COMPLETED"
    /\ \E j \in Idx(yielded) :
          yielded[j].type = "lifecycle_update" /\ yielded[j].data.status = "FAILED"

IsLog(ev) == ev.type = "log"
IsOutcomeReport(ev) == ev.type = "lifecycle_update" /\ ev.data.status # "RUNNING"

\* The debug records of the node updates the engine reported with
\* on_chain_end, in the order of the reports.
RECURSIVE ReportedRecords(_)
ReportedRecords(es) ==
    IF es = <<>> THEN <<>> ELSE Head(es).update.debug_log \o ReportedRecords(Tail(es))

(* C14: for every on_chain_end of a node whose update holds k >= 1 debug   *)
(* records the stream yields exactly k log events, one per record in       *)
(* order, then one lifecycle_update for the node: once the consumer has    *)
(* read the whole stream of the graph, the log events yielded are the      *)
(* records of all node updates in order, and there is one COMPLETED or     *)
(* FAILED report per update that holds a record.                           *)
C14_OneLogPerRecord ==
    cpc # "loop" =>
        /\ [i \in Idx(SelectSeq(yielded, IsLog)) |-> SelectSeq(yielded, IsLog)[i].data]
              = ReportedRecords(execs)
        /\ Len(SelectSeq(yielded, IsOutcomeReport))
              = Cardinality({i \in Idx(execs) : execs[i].update.debug_log # <<>>})

IsSubWorkflowEvent(ev) == ev.type = "sub_workflow_event"

\* The sub_workflow_events yielded to the caller so far, in order.
ForwardedEvents == SelectSeq(yielded, IsSubWorkflowEvent)

SubRunFailed(e, i) ==
    /\ e.type = "workflow"
    /\ Executed(e)
    /\ i \in Idx(e.behs)
    /\ ~e.behs[i].raise
    /\ e.behs[i].sub.error_info # <<>>
    /\ StepByName(doc, e.name).map_input # <<>> => i \in Idx(MapItems(e))

(* C16: when the sub-graph of a workflow step finishes with non-empty      *)
(* error_info, the parent step fails: its update has a Failed record and   *)
(* an ErrorRecord whose failed_step is the parent step's name and whose    *)
(* message names the first failed sub-step of a failed sub-run, and no     *)
(* parent key of output_mapping is written.                                *)
C16_SubFailureFailsParent ==
    \A k \in Idx(execs) :
        (\E i \in Idx(execs[k].behs) : SubRunFailed(execs[k], i)) =>
            LET e == execs[k]
                st == StepByName(doc, e.name)
                u == e.update
            IN /\ FailedIdx(u.debug_log) # {}
               /\ \A r \in FailedIdx(u.debug_log) : u.debug_log[r].step_name = e.name
               /\ Len(u.error_info) = 1
               /\ u.error_info[1].failed_step = e.name
               /\ u.error_info[1].message = "RuntimeError"
               /\ \E i \in Idx(e.behs) :
                     /\ SubRunFailed(e, i)
                     /\ u.error_info[1].sub_step = e.behs[i].sub.error_info[1].failed_step
               /\ Range(st.output_mapping) \cap DOMAIN u.workflow_data = {}

\* The embedded run of a workflow step failed at its second step, and the
\* parent step returned.
C16_Witness ==
    \E k \in Idx(execs) :
        /\ SubRunFailed(execs[k], 1)
        /\ execs[k].behs[1].sub.error_info[1].failed_step = "i2"
        /\ execs[k].update.error_info # <<>>

\* The records log[o + 1 .. o + Len(block)] are block.
BlockAt(log, o, block) ==
    /\ o + Len(block) <= Len(log)
    /\ \A i \in Idx(block) : log[o + i] = block[i]

(* C17: after a workflow step completes successfully, the debug_log of the *)
(* parent run holds every debug record of the sub-run as one contiguous    *)
(* block in the sub-run's order, placed between the start record and the   *)
(* end record of the parent step.                                          *)
C17_SubRunBlockInsideParent ==
    GraphSettled =>
        \A k \in Idx(execs) :
            (execs[k].type = "workflow" /\ Executed(execs[k]) /\ ~execs[k].raised) =>
                \A i \in Idx(execs[k].behs) :
                    \E o \in 0..Len(gstate.debug_log) :
                        /\ BlockAt(gstate.debug_log, o, execs[k].behs[i].sub.debug_log)
                        /\ \E p \in 1..o : gstate.debug_log[p].step_name = execs[k].name
                        /\ \E q \in (o + Len(execs[k].behs[i].sub.debug_log) + 1)..Len(gstate.debug_log) :
                              gstate.debug_log[q].step_name = execs[k].name

\* The first lookup of the name looked up at position i.
FirstLookup(i) ==
    CHOOSE j \in Idx(lookups) :
        /\ lookups[j].name = lookups[i].name
        /\ \A k \in Idx(lookups) : lookups[k].name = lookups[i].name => j <= k

(* C18: under every interleaving of the lookups of a run, the first lookup *)
(* of a workflow name compiles the graph and stores it, every later lookup *)
(* of the name returns that same graph without compiling, and the entry    *)
(* stored is still in the cache, unchanged.                                *)
C18_CompiledOnceAndKept ==
    \A i \in Idx(lookups) :
        /\ lookups[i].compiled <=> i = FirstLookup(i)
        /\ lookups[i].graph = lookups[FirstLookup(i)].graph
        /\ lookups[i].name \in DOMAIN COMPILED_WORKFLOW_CACHE
        /\ COMPILED_WORKFLOW_CACHE[lookups[i].name] = lookups[FirstLookup(i)].graph

\* The two concurrent iterations of the mapped workflow step and the second
\* handler call of the except branch have each looked the sub-workflow up.
C18_Witness ==
    /\ Len(lookups) >= 3
    /\ lookups[1].compiled
    /\ ~lookups[3].compiled
    /\ doc = DocMapOuter

\* The orders in which the updates of the nodes of set S can be merged.
MergeOrders(S) ==
    {o \in [1..Cardinality(S) -> S] : \A i, j \in 1..Cardinality(S) : o[i] = o[j] => i = j}

\* The lists the updates ups carry in channel c, one after the other.
RECURSIVE ConcatChannel(_, _, _)
ConcatChannel(order, ups, c) ==
    IF order = <<>> THEN <<>>
    ELSE ups[Head(order)][c] \o ConcatChannel(Tail(order), ups, c)

\* No two of the updates ups write the same workflow_data key.
DisjointKeys(ups) ==
    \A n, m \in DOMAIN ups :
        n # m => DOMAIN ups[n].workflow_data \cap DOMAIN ups[m].workflow_data = {}

DuplicateProducers(d) ==
    \E i, j \in Idx(d) : i # j /\ ProducedKeys(d[i]) \cap ProducedKeys(d[j]) # {}

(* C20: a document in which two steps produce the same key is rejected     *)
(* when it is compiled, before any node runs, so that two nodes of one run *)
(* never write the same workflow_data key.                                 *)
C20_DuplicateProducersRejected ==
    /\ DuplicateProducers(doc) => (gpc = "init" /\ execs = <<>>)
    /\ \A i, j \in Idx(execs) :
          (IsWrapped(execs[i]) /\ IsWrapped(execs[j]) /\ execs[i].name # execs[j].name)
              => DOMAIN execs[i].update.workflow_data
                    \cap DOMAIN execs[j].update.workflow_data = {}


\* A step of document d declares a dependency key that no step produces,
\* or a router of d names a target that is neither a step of d nor END.
UnknownReference(d) ==
    \/ \E i \in Idx(d) : d[i].dependencies \ DOMAIN output_to_step_map(d) # {}
    \/ router_targets(d) \ (StepNames(d) \cup {"END"}) # {}

(* C21: a document with a dependency key that no step produces, or with a  *)
(* router target that is neither a step nor END, is rejected when it is    *)
(* compiled: none of its nodes ever runs.                                   *)
C21_UnknownReferencesRejected ==
    UnknownReference(doc) => execs = <<>>


\* The edges of the compiled graph of d: the dependency edges and, for a
\* router, one edge to each step its routing_map names.
GraphEdges(d) ==
    Edges(d) \cup
    {e \in StepNames(d) \X StepNames(d) :
        /\ StepByName(d, e[1]).type = "conditional_router"
        /\ e[2] \in Range(StepByName(d, e[1]).routing_map)}

\* The nodes reached from the set S in at most k more edges of E.
RECURSIVE ReachedFrom(_, _, _)
ReachedFrom(E, S, k) ==
    IF k = 0 THEN S
    ELSE ReachedFrom(E, S \cup {e[2] : e \in {x \in E : x[1] \in S}}, k - 1)

\* Some step of d is reached from one of its own successors.
Cyclic(d) ==
    \E n \in StepNames(d) :
        n \in ReachedFrom(GraphEdges(d), {e[2] : e \in {x \in GraphEdges(d) : x[1] = n}}, Len(d))

\* How many times node n has run.
TimesRun(n) == Cardinality({i \in Idx(execs) : execs[i].name = n})

(* C22: a document whose dependency and router edges contain a cycle is    *)
(* rejected by the compiler, none of its nodes ever runs; so in every run  *)
(* a step executes at most once per level of the graph, that is at most as *)
(* many times as the document has steps.                                   *)
C22_CyclesRejected ==
    /\ Cyclic(doc) => execs = <<>>
    /\ \A n \in StepNames(doc) : TimesRun(n) <= Len(doc)


----------------------------------------------------------------------------
(* The helper functions studied alone: a call is drawn from bounded sets   *)
(* of arguments and the function is applied to it; no workflow runs.       *)

\* No workflow runs.
IdleRun ==
    /\ doc = <<>>
    /\ impl = "builder"
    /\ step = 0
    /\ gstate = InitialState
    /\ active = {}
    /\ running = {}
    /\ streamed = {}
    /\ updates = [n \in {} |-> EmptyUpdate]
    /\ routed = [n \in {} |-> "END"]
    /\ pending = [n \in {} |-> [behs |-> <<>>, res |-> Gated]]
    /\ gpc = "init"
    /\ lpc = "listen"
    /\ cpc = "loop"
    /\ merged = <<>>
    /\ event_queue = <<>>
    /\ yielded = <<>>
    /\ trace = <<>>
    /\ execs = <<>>
    /\ emitted = <<>>
    /\ COMPILED_WORKFLOW_CACHE = EmptyMap
    /\ lookups = <<>>

NoRun == IdleRun /\ NoClient /\ NoPipeline

\* The variables of a workflow run.
runvars_of_run == <<doc, impl, step, gstate, active, running, streamed, updates, routed, pending,
                    gpc, lpc, cpc, merged, event_queue, yielded, trace, execs, emitted,
                    COMPILED_WORKFLOW_CACHE, lookups>>

runvars == <<doc, impl, step, gstate, active, running, streamed, updates, routed, pending,
             gpc, lpc, cpc, merged, event_queue, yielded, trace, execs, emitted,
             COMPILED_WORKFLOW_CACHE, lookups, llmvars, pipevars>>

Call(fn, args) == [fn |-> fn, args |-> args, ret |-> NoneV, done |-> FALSE]

\* The longest key string, in tokens.
MaxRefLen == 5

RefTokens == {"a", "b", "item", ".", "'"}
KeyStrings == UNION {[1..n -> RefTokens] : n \in 1..MaxRefLen}

\* The mappings a key string is resolved against.
RefStates ==
    { EmptyMap,
      "a" :> StrV("x"),
      ("a" :> MapV(("b" :> StrV("y")) @@ ("item" :> StrV("z")))) @@ ("item" :> StrV("i")) }

InitResolve ==
    /\ NoRun
    /\ call \in {Call("_resolve_value_from_state", <<s, k>>) : s \in RefStates, k \in KeyStrings}

ResolveValue ==
    /\ call.fn = "_resolve_value_from_state"
    /\ ~call.done
    /\ call' = [call EXCEPT !.ret = _resolve_value_from_state(call.args[1], call.args[2]),
                            !.done = TRUE]
    /\ UNCHANGED runvars

SpecResolve == InitResolve /\ [][ResolveValue]_vars

\* The rules of reference resolution, applied top-down in the stated
\* order: the literal item, a quoted literal, a dotted reference, a bare key.
IsQuoted(ref) == ref # <<>> /\ Head(ref) = "'" /\ ref[Len(ref)] = "'"
IsDotted(ref) == \E i \in DOMAIN ref : ref[i] = "."

RECURSIVE ResolveRef(_, _)
ResolveRef(state, ref) ==
    IF Concat(ref) = "item" THEN DictGet(state, "item")
    ELSE IF IsQuoted(ref) THEN StrV(Concat(SubSeq(ref, 2, Len(ref) - 1)))
    ELSE IF IsDotted(ref) THEN
        LET value == DictGet(state, Concat(SubSeq(ref, 1, FirstDot(ref) - 1))) IN
        IF IsDict(value)
        THEN ResolveRef(AsMapping(value), SubSeq(ref, FirstDot(ref) + 1, Len(ref)))
        ELSE NoneV
    ELSE DictGet(state, Concat(ref))

(* C23: _resolve_value_from_state returns what the rules of reference      *)
(* resolution give when they are applied top-down in the stated order      *)
(* (item, quoted literal, dotted reference, bare key); in particular a     *)
(* quoted literal gives its inner string also when that contains a dot.    *)
C23_ResolveFollowsRuleOrder ==
    (call.fn = "_resolve_value_from_state" /\ call.done)
        => call.ret = ResolveRef(call.args[1], call.args[2])


----------------------------------------------------------------------------
(* _resolve_placeholders on a string.  A string is held as the sequence of *)
(* its characters; str(None) and the str() of a dict or a list hold no     *)
(* angle bracket and are held as one unit.                                 *)

\* The longest string given to _resolve_placeholders, in characters.
MaxStrLen == 6

TemplateChars == {"<", ">", "a", "b"}
Templates == UNION {[1..n -> TemplateChars] : n \in 0..MaxStrLen}

\* The texts the key a can hold, and the states they are held in.
ValueTexts == {<<>>, <<"x">>, <<"<", "b", ">">>}
PlaceholderStates ==
    {("a" :> StrV(Concat(t))) @@ ("b" :> v) : t \in ValueTexts, v \in {StrV("x"), DictV("x")}}

\* str(value), as characters.
PyChars(v) ==
    CASE v.t = "str" -> CHOOSE c \in ValueTexts : Concat(c) = v.s
      [] OTHER -> <<PyStr(v)>>

\* re.finditer(r'<([^>]+)>', s) from position i on: group 1 of each match.
RECURSIVE finditer(_, _)
finditer(s, i) ==
    IF i > Len(s) THEN <<>>
    ELSE IF s[i] = "<" /\ \E j \in (i + 1)..Len(s) : s[j] = ">" THEN
        LET j == CHOOSE j \in (i + 1)..Len(s) :
                    s[j] = ">" /\ \A k \in (i + 1)..(j - 1) : s[k] # ">" IN
        IF j > i + 1
        THEN <<SubSeq(s, i + 1, j - 1)>> \o finditer(s, j + 1)
        ELSE finditer(s, i + 1)
    ELSE finditer(s, i + 1)

\* s.replace(old, new): every occurrence of old, from the left.
RECURSIVE replace(_, _, _)
replace(s, old, new) ==
    IF Len(s) < Len(old) THEN s
    ELSE IF SubSeq(s, 1, Len(old)) = old
    THEN new \o replace(SubSeq(s, Len(old) + 1, Len(s)), old, new)
    ELSE <<Head(s)>> \o replace(Tail(s), old, new)

\* The loop over the matches of the string as given; data_structure is the
\* string as rewritten so far.
RECURSIVE PlaceholderLoop(_, _, _)
PlaceholderLoop(matches, data_structure, state_data) ==
    IF matches = <<>> THEN StrV(Concat(data_structure))
    ELSE LET placeholder == Head(matches)
             resolved_value == _resolve_value_from_state(state_data, placeholder)
             token == <<"<">> \o placeholder \o <<">">> IN
         IF data_structure = token THEN resolved_value
         ELSE PlaceholderLoop(Tail(matches),
                              replace(data_structure, token, PyChars(resolved_value)),
                              state_data)

_resolve_placeholders(data_structure, state_data) ==
    PlaceholderLoop(finditer(data_structure, 1), data_structure, state_data)

InitPlaceholders ==
    /\ NoRun
    /\ call \in {Call("_resolve_placeholders", <<t, s>>) : t \in Templates, s \in PlaceholderStates}

ResolvePlaceholders ==
    /\ call.fn = "_resolve_placeholders"
    /\ ~call.done
    /\ call' = [call EXCEPT !.ret = _resolve_placeholders(call.args[1], call.args[2]),
                            !.done = TRUE]
    /\ UNCHANGED runvars

SpecPlaceholders == InitPlaceholders /\ [][ResolvePlaceholders]_vars

\* Replacement in a single pass over string s from position i on: the
\* text outside the tokens is kept, each token <ref> gives the characters
\* of str(ResolveRef(state, ref)), and nothing that was put in is read again.
RECURSIVE SinglePass(_, _, _)
SinglePass(s, i, state) ==
    IF i > Len(s) THEN <<>>
    ELSE IF s[i] = "<" /\ \E j \in (i + 2)..Len(s) :
                              s[j] = ">" /\ \A k \in (i + 1)..(j - 1) : s[k] # ">" THEN
        LET j == CHOOSE j \in (i + 2)..Len(s) :
                    s[j] = ">" /\ \A k \in (i + 1)..(j - 1) : s[k] # ">" IN
        PyChars(ResolveRef(state, SubSeq(s, i + 1, j - 1))) \o SinglePass(s, j + 1, state)
    ELSE <<s[i]>> \o SinglePass(s, i + 1, state)

\* The whole string is one token <ref>.
WholeCell(s) ==
    Len(s) >= 3 /\ s[1] = "<" /\ s[Len(s)] = ">" /\ \A k \in 2..(Len(s) - 1) : s[k] # ">"

(* C24: _resolve_placeholders replaces the tokens of a string in a single  *)
(* pass: a string that is one token gives the typed resolution; otherwise  *)
(* each token of the string as given is replaced by the stringified        *)
(* resolution, and a token that only came in with a resolved value is      *)
(* neither expanded nor taken for a whole-cell replacement.                *)
C24_SinglePassReplacement ==
    (call.fn = "_resolve_placeholders" /\ call.done)
        => call.ret = IF WholeCell(call.args[1])
                      THEN ResolveRef(call.args[2], SubSeq(call.args[1], 2, Len(call.args[1]) - 1))
                      ELSE StrV(Concat(SinglePass(call.args[1], 1, call.args[2])))


\* A byte blob lies somewhere inside value v.
RECURSIVE HasBytes(_)
HasBytes(v) ==
    CASE v.t = "bytes" -> TRUE
      [] v.t = "map" -> \E k \in DOMAIN v.m : HasBytes(v.m[k])
      [] v.t = "list" -> \E i \in DOMAIN v.l : HasBytes(v.l[i])
      [] OTHER -> FALSE

(* C25: no debug record a node appends to debug_log (the record of the     *)
(* node, a child record of a mapped iteration, a Failed record) holds a    *)
(* byte blob anywhere inside its inputs or its outputs.                    *)
C25_NoBytesInRecords ==
    \A i \in Idx(execs) : IsWrapped(execs[i]) =>
        \A k \in Idx(execs[i].update.debug_log) :
            /\ ~HasBytes(execs[i].update.debug_log[k].inputs)
            /\ ~HasBytes(execs[i].update.debug_log[k].outputs)


----------------------------------------------------------------------------
(* A run whose caller may abandon the event stream.                        *)

\* The caller stops iterating run_workflow_streaming before the result
\* event (it closes the generator, or cancels while awaiting the next
\* event): the generator ends at its current yield or await; the function
\* has no try/finally and never cancels the two tasks it created.
CallerAbandons ==
    /\ cpc = "loop"
    /\ \A i \in Idx(yielded) : yielded[i].type # "result"
    /\ cpc' = "abandoned"
    /\ UNCHANGED <<llmvars, pipevars, call, doc, impl, step, gstate, active, running, streamed, updates, routed,
                   pending, gpc, lpc, merged, event_queue, yielded, trace, execs, emitted,
                   COMPILED_WORKFLOW_CACHE, lookups>>

\* The documents run with a caller that may abandon.
AbandonDocs == {DocRouter, DocLoop, DocOuter}

InitAbandon == InitOf(AbandonDocs)

SpecAbandon == InitAbandon /\ [][Next \/ CallerAbandons]_vars

(* C26: when the caller abandons the event stream before the result event  *)
(* the outstanding work is cancelled: from then on the graph task is not   *)
(* running and the sub-workflow listener is not waiting on the auxiliary   *)
(* queue.                                                                  *)
C26_AbandonCancelsTasks ==
    cpc = "abandoned" => (gpc \notin {"init", "run", "ended"} /\ lpc # "listen")


(* C27: on normal completion the sub-workflow listener is stopped only     *)
(* after the main graph has completed: the stop signal is put on the       *)
(* auxiliary queue, and the listener ends, only when the graph task has    *)
(* put its sentinel and ended; and when run_workflow_streaming finishes,   *)
(* the graph task and the listener task have both terminated.              *)
StopSignalled ==
    \/ cpc \in {"stopping", "gather", "finished"}
    \/ \E i \in Idx(event_queue) : event_queue[i] = NoneEvent
    \/ lpc = "done"

C27_ListenerStopsAfterGraph ==
    /\ StopSignalled => gpc = "done"
    /\ cpc = "finished" => (gpc = "done" /\ lpc = "done" /\ event_queue = <<>>)

\* A run with sub-workflow events has finished.
C27_Witness ==
    /\ cpc = "finished"
    /\ lpc = "done"
    /\ emitted # <<>>


----------------------------------------------------------------------------
(* Two runs of the same document, one after the other in one process.      *)

\* A step mapped over two different items, each iteration reading its item.
DocPairs ==
    << CodeStep("src", {}, "items", {ListV(ItemsOf(2))}),
       [MappedStep("each", {"items"}, "km", <<"items">>, {DictV("x"), DictV("y")})
           EXCEPT !.input_mapping = {<< <<"item">>, "x" >>}] >>

\* The documents run twice, and those that make every action of a run
\* happen.
TwiceDocs == {DocJoin, DocDup, DocPairs, DocOuter, DocRouter, DocLoop}

\* Only code steps, and workflow steps whose package has only code steps.
RECURSIVE CodeOnly(_)
CodeOnly(d) ==
    \A i \in 1..Len(d) :
        \/ d[i].type = "code"
        \/ d[i].type = "workflow" /\ CodeOnly(SubWorkflowDoc(d[i].workflow_name))

\* The handler invocations of node invocation e: the step, the inputs the
\* handler was given (resolved_inputs, sub_initial_data) and what it did.
HandlerCalls(e) ==
    LET st == StepByName(doc, e.name)
        items == _resolve_value_from_state(e.state.workflow_data, st.map_input)
        mapped == st.map_input # <<>> /\ items.t = "list" /\ Len(items.l) > 0
    IN {[name |-> e.name,
         inputs |-> sub_initial_data(st, IterationContext(impl, st, e.state,
                                                          IF mapped THEN i ELSE 0)),
         raise |-> e.behs[i].raise,
         out |-> IF e.behs[i].raise THEN NoneV
                 ELSE IF st.type = "workflow" THEN MapV(e.behs[i].sub.workflow_data)
                 ELSE e.behs[i].out] : i \in DOMAIN e.behs}

\* The handler invocations of the run so far.
RunCalls ==
    UNION {HandlerCalls(execs[i]) : i \in {j \in Idx(execs) : Executed(execs[j])}}

\* The first run has finished and run_workflow_streaming is called again
\* with the same document and the same initial state: a new graph, new
\* queues and tasks; the module-level cache of compiled sub-workflows is
\* the one the first run left.  call keeps what the first run did.
RunAgain ==
    /\ call.fn = ""
    /\ cpc = "finished"
    /\ CodeOnly(doc)
    /\ call' = [fn |-> "run_workflow_streaming", args |-> <<RunCalls>>,
                ret |-> MapV(gstate.workflow_data), done |-> TRUE]
    /\ step' = 0
    /\ gstate' = InitialState
    /\ active' = {}
    /\ running' = {}
    /\ streamed' = {}
    /\ updates' = [n \in {} |-> EmptyUpdate]
    /\ routed' = [n \in {} |-> "END"]
    /\ pending' = [n \in {} |-> [behs |-> <<>>, res |-> Gated]]
    /\ gpc' = "init"
    /\ lpc' = "listen"
    /\ cpc' = "loop"
    /\ merged' = <<>>
    /\ event_queue' = <<>>
    /\ yielded' = <<>>
    /\ trace' = <<>>
    /\ execs' = <<>>
    /\ emitted' = <<>>
    /\ lookups' = <<>>
    /\ UNCHANGED <<llmvars, pipevars, doc, impl, COMPILED_WORKFLOW_CACHE>>

InitTwice == InitOf(TwiceDocs)

SpecTwice == InitTwice /\ [][Next \/ RunAgain]_vars

\* Every handler is a function of its inputs in the invocations S.
Functional(S) ==
    \A x, y \in S :
        (x.name = y.name /\ x.inputs = y.inputs) => (x.raise = y.raise /\ x.out = y.out)

(* C28: for a document of code steps (and sub-workflows of code steps)     *)
(* whose handlers are deterministic, a second run from the same initial    *)
(* workflow_data ends with the workflow_data the first run ended with,     *)
(* whatever the order in which concurrent nodes and mapped iterations      *)
(* complete in either run, the first run compiling the sub-workflows and   *)
(* the second taking them from the cache.                                  *)
C28_Deterministic ==
    (/\ call.fn = "run_workflow_streaming"
     /\ GraphSettled
     /\ CodeOnly(doc)
     /\ Functional(call.args[1] \cup RunCalls))
    => MapV(gstate.workflow_data) = call.ret

\* A second run has finished in which the second iteration of a mapped step
\* completed first and the two iterations returned different values.
C28_Witness ==
    /\ call.fn = "run_workflow_streaming"
    /\ cpc = "finished"
    /\ Functional(call.args[1] \cup RunCalls)
    /\ \E i \in Idx(execs) :
          /\ Executed(execs[i])
          /\ Len(execs[i].behs) = 2
          /\ execs[i].behs[1].done = 2
          /\ ~execs[i].behs[1].raise /\ ~execs[i].behs[2].raise
          /\ execs[i].behs[1].out # execs[i].behs[2].out


(* C29: in the final state of a run, every step of the document that is   *)
(* not a router, declares an output_key and has a Completed record has     *)
(* its output_key among the keys of workflow_data.                         *)
C29_CompletedStepsWroteTheirKey ==
    GraphSettled =>
        \A i \in Idx(gstate.debug_log) :
            LET rec == gstate.debug_log[i] IN
            (/\ rec.status = "Completed"
             /\ ~rec.is_child
             /\ rec.step_name \in StepNames(doc)
             /\ StepByName(doc, rec.step_name).type # "conditional_router"
             /\ StepByName(doc, rec.step_name).output_key # "")
            => StepByName(doc, rec.step_name).output_key \in DOMAIN gstate.workflow_data


(* C30: a superstep in which only conditional_router nodes ran leaves the  *)
(* state as it was: once the routers' updates are merged through the       *)
(* reducers, workflow_data, debug_log, execution_log and error_info are    *)
(* what they were before the routers ran.                                  *)
OnlyRoutersRan ==
    /\ active # {}
    /\ \A n \in active : StepByName(doc, n).type = "conditional_router"

C30_RouterIsIdentity ==
    [][(OnlyRoutersRan /\ step' = step + 1) => gstate' = gstate]_vars


\* The final states of the sub-runs whose events step name forwarded.
ForwardedFinalStates(name) ==
    {emitted[i].data.original_event.output :
        i \in {j \in Idx(emitted) :
                 /\ emitted[j].data.parent_step = name
                 /\ emitted[j].data.original_event.event = "on_graph_end"}}

(* C31: one execution of a workflow step runs its sub-graph once: when the *)
(* step has completed, the events it forwarded come from the sub-run whose *)
(* final state it projected into the parent, so that the final state the   *)
(* forwarded events report is the final state of one of its iterations.    *)
C31_SubGraphRunOnce ==
    \A k \in Idx(execs) :
        (execs[k].type = "workflow" /\ Executed(execs[k]) /\ ~execs[k].raised) =>
            \A s \in ForwardedFinalStates(execs[k].name) :
                \E i \in Idx(execs[k].behs) : execs[k].behs[i].sub = s


\* The handler invocations one execution of step st makes in state when
\* every one of them is made once: one per item of a mapped step, none when
\* map_input does not resolve to a list, one for a step that is not mapped.
HandlerCallsDue(st, state) ==
    LET items == _resolve_value_from_state(state.workflow_data, st.map_input) IN
    IF st.map_input = <<>> THEN 1
    ELSE IF items.t = "list" THEN Len(items.l)
    ELSE 0

(* C32: one execution of a node invokes the step's handler at most once    *)
(* (once per item for a mapped step), also when the handler raises, and    *)
(* not at all when map_input does not resolve to a list: a Failed node has *)
(* no further handler invocation after the one that raised.                *)
C32_HandlerInvokedAtMostOnce ==
    \A k \in Idx(execs) :
        Executed(execs[k]) =>
            execs[k].calls <= HandlerCallsDue(StepByName(doc, execs[k].name), execs[k].state)


\* The yielded event at position j reports that step `name` completed or
\* failed.
IsTerminalFor(j, name) ==
    /\ yielded[j].type = "lifecycle_update"
    /\ yielded[j].data.status \in {"COMPLETED", "FAILED"}
    /\ yielded[j].data.step_name = name

(* C33: once the result event is yielded, every step reported RUNNING      *)
(* before it, routers and gated steps included, has been reported          *)
(* COMPLETED or FAILED between the two; and a step is reported COMPLETED   *)
(* or FAILED no more often than one of its nodes has ended.                *)
C33_EveryRunningStepIsClosed ==
    /\ \A r \in ResultIdx : \A i \in 1..(r - 1) :
          (yielded[i].type = "lifecycle_update" /\ yielded[i].data.status = "RUNNING") =>
              \E j \in (i + 1)..(r - 1) : IsTerminalFor(j, yielded[i].data.step_name)
    /\ \A n \in StepNames(doc) :
          Cardinality({j \in Idx(yielded) : IsTerminalFor(j, n)})
             <= Cardinality({t \in Idx(trace) : trace[t] = <<"on_chain_end", n>>})


(* C34: run_workflow_streaming never blocks forever: whenever no task of   *)
(* the run can take a step any more, also after iterating the graph's      *)
(* events raised, the consumer has left its loop and finished and the      *)
(* sub-workflow listener has stopped.                                      *)
C34_NeverBlocksForever ==
    Quiescent => (cpc = "finished" /\ lpc = "done")


\* Iteration i of the mapped step of invocation e raised.
IterationRaised(e, i) ==
    logic_func(StepByName(doc, e.name),
               IterationContext(impl, StepByName(doc, e.name), e.state, i),
               e.behs[i]).raised

\* Invocation e is a mapped step that ran its iterations over a list.
MappedRan(e) ==
    /\ Executed(e)
    /\ StepByName(doc, e.name).map_input # <<>>
    /\ _resolve_value_from_state(e.state.workflow_data,
                                 StepByName(doc, e.name).map_input).t = "list"

(* C35: when an iteration of a mapped step raises, the whole step aborts:  *)
(* the node's update holds one Failed record of the step and nothing else  *)
(* in debug_log (no child record of an iteration that succeeded), one      *)
(* error record naming the step, and writes nothing to workflow_data       *)
(* (neither a partial list nor a null under output_key).                   *)
C35_MappedStepAborts ==
    \A k \in Idx(execs) :
        (MappedRan(execs[k]) /\ \E i \in Idx(MapItems(execs[k])) : IterationRaised(execs[k], i)) =>
            LET e == execs[k] IN
            /\ Len(e.update.debug_log) = 1
            /\ e.update.debug_log[1].step_name = e.name
            /\ e.update.debug_log[1].status = "Failed"
            /\ ~e.update.debug_log[1].is_child
            /\ Len(e.update.error_info) = 1
            /\ e.update.error_info[1].failed_step = e.name
            /\ DOMAIN e.update.workflow_data = {}

\* A mapped step over two items failed: its first iteration returned and
\* its second raised.
C35_Witness ==
    \E k \in Idx(execs) :
        /\ MappedRan(execs[k])
        /\ Len(MapItems(execs[k])) = 2
        /\ ~IterationRaised(execs[k], 1)
        /\ IterationRaised(execs[k], 2)
        /\ execs[k].update.error_info # <<>>


----------------------------------------------------------------------------
(* The key manager: ApiKeyManager over the GEMINI_API_KEY lines of .env.   *)
(* Positions in keys count from 1; the key of line i is "k<i>", or empty.  *)

\* The longest key file, in GEMINI_API_KEY lines.
MaxKeyLines == 3

\* A line (#)GEMINI_API_KEY="<key>".
KeyLine(commented, key) == [commented |-> commented, key |-> key]

\* The key files: every line commented out or not, its value set or empty.
EnvFiles ==
    UNION {{f \in [1..n -> {KeyLine(c, k) : c \in BOOLEAN,
                                            k \in {""} \cup {"k" \o ToString(i) : i \in 1..n}}] :
               \A i \in 1..n : f[i].key \in {"", "k" \o ToString(i)}} : n \in 0..MaxKeyLines}

RECURSIVE LoadLoop(_, _, _)
\* for i, match in enumerate(matches): the keys appended and the index set
\* so far, over the lines still to read.
LoadLoop(matches, ks, index) ==
    IF matches = <<>> THEN [keys |-> ks, current_key_index |-> index]
    ELSE LET match == Head(matches)
             is_commented == match.commented
             appended == IF match.key # ""
                         THEN Append(ks, [key |-> match.key, is_active |-> ~is_commented])
                         ELSE ks
         IN LoadLoop(Tail(matches), appended,
                     IF match.key # "" /\ ~is_commented /\ index = <<>>
                     THEN <<Len(appended)>> ELSE index)

RECURSIVE _save_keys(_, _)
\* Every key line of the file is rewritten from the next entry of keys,
\* and kept as it is once the entries have run out.
_save_keys(lines, key_iter) ==
    IF lines = <<>> THEN <<>>
    ELSE IF key_iter # <<>>
    THEN <<KeyLine(~Head(key_iter).is_active, Head(key_iter).key)>>
         \o _save_keys(Tail(lines), Tail(key_iter))
    ELSE <<Head(lines)>> \o _save_keys(Tail(lines), key_iter)

\* The manager after _load_keys has read the file.
_load_keys(file) ==
    LET read == LoadLoop(file, <<>>, <<>>) IN
    IF read.current_key_index = <<>> /\ read.keys # <<>>
    THEN LET activated == [read.keys EXCEPT ![1].is_active = TRUE]
         IN [keys |-> activated, current_key_index |-> <<1>>,
             env_file |-> _save_keys(file, activated)]
    ELSE [keys |-> read.keys, current_key_index |-> read.current_key_index, env_file |-> file]

get_active_key(ks, index) ==
    IF index # <<>> /\ ks # <<>> THEN StrV(ks[index[1]].key) ELSE NoneV

\* Mutant of rotate_to_next_key: after the last key the first one is made
\* current again.
rotate_to_next_key_wrapping(ks, index, file) ==
    IF index = <<>>
    THEN [keys |-> ks, current_key_index |-> index, env_file |-> file, ret |-> NoneV]
    ELSE LET deactivated == [ks EXCEPT ![index[1]].is_active = FALSE]
             next_index == (index[1] % Len(ks)) + 1
             activated == [deactivated EXCEPT ![next_index].is_active = TRUE]
         IN [keys |-> activated, current_key_index |-> <<next_index>>,
             env_file |-> _save_keys(file, activated),
             ret |-> StrV(activated[next_index].key)]

\* The manager after rotate_to_next_key, and what the call returns.
rotate_to_next_key(ks, index, file) ==
    IF index = <<>>
    THEN [keys |-> ks, current_key_index |-> index, env_file |-> file, ret |-> NoneV]
    ELSE LET deactivated == [ks EXCEPT ![index[1]].is_active = FALSE]
             next_index == index[1] + 1
         IN IF next_index > Len(ks)
            THEN [keys |-> deactivated, current_key_index |-> <<>>,
                  env_file |-> _save_keys(file, deactivated), ret |-> NoneV]
            ELSE LET activated == [deactivated EXCEPT ![next_index].is_active = TRUE]
                 IN [keys |-> activated, current_key_index |-> <<next_index>>,
                     env_file |-> _save_keys(file, activated),
                     ret |-> StrV(activated[next_index].key)]

\* key_manager = ApiKeyManager(): the manager has read one of the key files;
\* no workflow runs and no client call is made.
InitKeys ==
    /\ IdleRun
    /\ NoPipeline
    /\ call = NoCall
    /\ \E file \in EnvFiles :
          /\ manager_keys = _load_keys(file).keys
          /\ current_key_index = _load_keys(file).current_key_index
          /\ env_file = _load_keys(file).env_file
    /\ api_key = ""
    /\ client_calls = <<>>
    /\ rotated = <<>>

\* A caller calls key_manager.rotate_to_next_key().
RotateToNextKey ==
    LET r == rotate_to_next_key(manager_keys, current_key_index, env_file) IN
    /\ manager_keys' = r.keys
    /\ current_key_index' = r.current_key_index
    /\ env_file' = r.env_file
    /\ call' = [fn |-> "rotate_to_next_key", args |-> <<>>, ret |-> r.ret, done |-> TRUE]
    /\ UNCHANGED <<doc, impl, step, gstate, active, running, streamed, updates, routed, pending,
                   gpc, lpc, cpc, merged, event_queue, yielded, trace, execs, emitted,
                   COMPILED_WORKFLOW_CACHE, lookups, api_key, client_calls, rotated, pipevars>>

\* A caller calls key_manager.get_active_key().
GetActiveKey ==
    /\ call' = [fn |-> "get_active_key", args |-> <<>>,
                ret |-> get_active_key(manager_keys, current_key_index), done |-> TRUE]
    /\ UNCHANGED <<doc, impl, step, gstate, active, running, streamed, updates, routed, pending,
                   gpc, lpc, cpc, merged, event_queue, yielded, trace, execs, emitted,
                   COMPILED_WORKFLOW_CACHE, lookups, llmvars, pipevars>>

SpecKeys == InitKeys /\ [][RotateToNextKey \/ GetActiveKey]_vars

\* The step is a call of rotate_to_next_key.
IsRotation == call'.fn = "rotate_to_next_key" /\ <<call, llmvars>>' # <<call, llmvars>>

(* C36: rotate_to_next_key moves strictly forward: a call either makes the *)
(* entry after the current one current and returns its key, or returns     *)
(* None, which it does exactly when the current entry is the last one or   *)
(* no entry is current; the index never decreases or wraps around; and     *)
(* once a call of rotate_to_next_key or get_active_key has returned None   *)
(* every later call returns None.                                          *)
C36_RotationMovesForward ==
    [][/\ IsRotation =>
            /\ call'.ret = NoneV
                  <=> (current_key_index = <<>> \/ current_key_index = <<Len(manager_keys)>>)
            /\ call'.ret = NoneV => current_key_index' = <<>>
            /\ call'.ret # NoneV =>
                  /\ current_key_index' = <<current_key_index[1] + 1>>
                  /\ call'.ret = StrV(manager_keys'[current_key_index'[1]].key)
       /\ (current_key_index # <<>> /\ current_key_index' # <<>>)
             => current_key_index'[1] >= current_key_index[1]
       /\ current_key_index = <<>> => current_key_index' = <<>>
       /\ (call.done /\ call.ret = NoneV) => call'.ret = NoneV]_vars

\* The keys were rotated to the last entry and then exhausted, and
\* get_active_key returned None after that.
C36_Witness ==
    /\ Len(manager_keys) = MaxKeyLines
    /\ current_key_index = <<>>
    /\ \A i \in Idx(manager_keys) : ~manager_keys[i].is_active
    /\ call.fn = "get_active_key"
    /\ call.ret = NoneV

(* C37: after initialisation and after every rotation at most one entry of *)
(* the key list has is_active true: the entry at current_key_index when    *)
(* the index is set, and none when the keys are exhausted.                 *)
C37_OneActiveKey ==
    \A i \in Idx(manager_keys) : manager_keys[i].is_active <=> current_key_index = <<i>>


----------------------------------------------------------------------------
(* The language-model client: concurrent calls of                          *)
(* GeminiClient.call_gemini_async on one event loop, sharing the key       *)
(* manager and the key genai.configure was given.  A request is issued     *)
(* with the configured key.                                                *)

\* The number of concurrent calls.
MaxCalls == 2

\* max_retries of _call_with_resilience_async.
max_retries == 3

\* An exception of the call, as the handler inspects it: whether it is a
\* BadResponseError, and which of the substrings tested are in
\* str(e).lower().
ApiException(bad, text) == [bad |-> bad, text |-> text]

FATAL_KEY_ERROR_SUBSTRINGS ==
    {"api key not valid", "permission denied", "invalid authentication", "api key expired"}

UNAVAILABLE_SUBSTRINGS == {"500", "503", "unavailable"}

\* What a request can end with, beside a response that parses: a quota
\* error, an invalid key, a rate limit, an unavailable service, a response
\* that is not JSON, one whose raw text holds the word quota, and any other
\* error.
Exceptions ==
    {ApiException(FALSE, {"quota"}), ApiException(FALSE, {"api key not valid"}),
     ApiException(FALSE, {"rate limit"}), ApiException(FALSE, {"503"}),
     ApiException(TRUE, {}), ApiException(TRUE, {"quota"}), ApiException(FALSE, {})}

\* A call that has not begun.
NewCall ==
    [pc |-> "start", attempt |-> 0, used |-> "", issued |-> EmptyBag, retried |-> {},
     result |-> ""]

\* await api_call_func(): the request of call c is issued with the
\* configured key.
Issue(c, key) ==
    [c EXCEPT !.pc = "waiting", !.used = key, !.issued = c.issued (+) SetToBag({key})]

\* The call has raised or returned.
Finish(c, result) == [c EXCEPT !.pc = "done", !.result = result]

\* GeminiClient(): the manager has read a key file whose lines all hold a
\* key, the active key is configured, and MaxCalls calls are about to be
\* made.  With no key the constructor raises and no call is made.
InitClient ==
    /\ IdleRun
    /\ NoPipeline
    /\ call = NoCall
    /\ \E file \in {f \in EnvFiles : f # <<>> /\ \A i \in 1..Len(f) : f[i].key # ""} :
          /\ manager_keys = _load_keys(file).keys
          /\ current_key_index = _load_keys(file).current_key_index
          /\ env_file = _load_keys(file).env_file
    /\ api_key = get_active_key(manager_keys, current_key_index).s
    /\ client_calls = [t \in 1..MaxCalls |-> NewCall]
    /\ rotated = <<>>

\* call_gemini_async(prompt, step_name) begins: first attempt.
ClientCall(t) ==
    /\ client_calls[t].pc = "start"
    /\ client_calls' = [client_calls EXCEPT ![t] = Issue(client_calls[t], api_key)]
    /\ UNCHANGED <<runvars_of_run, pipevars, call, manager_keys, current_key_index, env_file, api_key, rotated>>

\* The request of call t returns a response that parses.
ClientReturn(t) ==
    /\ client_calls[t].pc = "waiting"
    /\ client_calls' = [client_calls EXCEPT ![t] = Finish(client_calls[t], "ok")]
    /\ UNCHANGED <<runvars_of_run, pipevars, call, manager_keys, current_key_index, env_file, api_key, rotated>>

\* The request of call t raises e: the except branch up to its next await.
ClientExcept(t, e) ==
    LET c == client_calls[t]
        is_quota_error == "quota" \in e.text
        is_fatal_key_error == e.text \cap FATAL_KEY_ERROR_SUBSTRINGS # {}
        r == rotate_to_next_key(manager_keys, current_key_index, env_file)
        retrying == [c EXCEPT !.retried = c.retried \cup {e}]
    IN
    /\ c.pc = "waiting"
    /\ IF is_quota_error \/ is_fatal_key_error
       THEN /\ manager_keys' = r.keys
            /\ current_key_index' = r.current_key_index
            /\ env_file' = r.env_file
            /\ rotated' = Append(rotated,
                   [away |-> get_active_key(manager_keys, current_key_index),
                    failed |-> StrV(c.used), new_key |-> r.ret])
            /\ IF r.ret # NoneV
               THEN /\ api_key' = r.ret.s
                    /\ client_calls' =
                          [client_calls EXCEPT ![t] = Issue([retrying EXCEPT !.attempt = 0], r.ret.s)]
               ELSE /\ api_key' = api_key
                    /\ client_calls' = [client_calls EXCEPT ![t] = Finish(c, "QuotaError")]
       ELSE /\ UNCHANGED <<manager_keys, current_key_index, env_file, api_key, rotated>>
            /\ client_calls' = [client_calls EXCEPT ![t] =
                  IF "rate limit" \in e.text THEN Finish(c, "RateLimitError")
                  ELSE IF e.bad THEN Finish(c, "BadResponseError")
                  ELSE IF e.text \cap UNAVAILABLE_SUBSTRINGS # {}
                  THEN IF c.attempt < max_retries - 1
                       THEN [retrying EXCEPT !.pc = "sleeping"]
                       ELSE Finish(c, "APIUnavailableError")
                  ELSE Finish(c, "APIError")]
    /\ UNCHANGED <<runvars_of_run, pipevars, call>>

\* asyncio.sleep(2 ** attempt) is over: continue, the next attempt.
ClientRetry(t) ==
    /\ client_calls[t].pc = "sleeping"
    /\ client_calls' = [client_calls EXCEPT ![t] =
          Issue([client_calls[t] EXCEPT !.attempt = @ + 1], api_key)]
    /\ UNCHANGED <<runvars_of_run, pipevars, call, manager_keys, current_key_index, env_file, api_key, rotated>>

NextClient ==
    \/ \E t \in 1..MaxCalls : ClientCall(t)
    \/ \E t \in 1..MaxCalls : ClientReturn(t)
    \/ \E t \in 1..MaxCalls : \E e \in Exceptions : ClientExcept(t, e)
    \/ \E t \in 1..MaxCalls : ClientRetry(t)

SpecClient == InitClient /\ [][NextClient]_vars

(* C38: with concurrent calls failing with quota or invalid-key errors, a  *)
(* key is rotated away only after a call that was issued with that key has *)
(* failed with such an error: the key each rotation leaves is the key of   *)
(* the failed call that caused it or of one that caused an earlier         *)
(* rotation.                                                               *)
C38_RotatesOnlyTriedKeys ==
    \A i \in Idx(rotated) :
        rotated[i].away # NoneV =>
            \E j \in 1..i : rotated[j].failed = rotated[i].away


\* The requests call c has issued, over all keys.
CallsMade(c) == BagCardinality(c.issued)

(* C39: a call of _call_with_resilience_async issues at most max_retries   *)
(* requests with any one key and at most max_retries times the number of   *)
(* keys in total, ends with a result or an APIError subclass, and issues a *)
(* request again only after an unavailable error or after a quota or       *)
(* invalid-key error: never after a BadResponseError or a rate-limit       *)
(* error.                                                                  *)
C39_BoundedRetries ==
    \A t \in Idx(client_calls) :
        LET c == client_calls[t] IN
        /\ \A k \in BagToSet(c.issued) : CopiesIn(k, c.issued) <= max_retries
        /\ CallsMade(c) <= max_retries * Len(manager_keys)
        /\ c.pc = "done" =>
              c.result \in {"ok", "QuotaError", "RateLimitError", "BadResponseError",
                            "APIUnavailableError", "APIError"}
        /\ \A e \in c.retried : ~e.bad /\ "rate limit" \notin e.text

----------------------------------------------------------------------------
(* The legacy PipelineOrchestrator (services/pipeline/orchestrator.py).     *)
(* A key is a sequence of tokens, "." and "_" being tokens of their own,    *)
(* so that split('.') and replace('.', '_') are computed and not assumed.   *)
(* A step of the definition carries name, type, params.output_key and its  *)
(* dependencies; both executors refuse a step without output_key.           *)

MaxDeps == 2

PipelineStep(name, type, output_key, dependencies) ==
    [name |-> name, type |-> type, output_key |-> output_key, dependencies |-> dependencies]

\* The dependency keys a definition may name: the outputs of the steps, a
\* granular key of the llm step's output, and a key no step produces.
DepKeys == {<<"x">>, <<"y">>, <<"z">>, <<"x", ".", "u">>, <<"w">>}

DepSets == {D \in SUBSET DepKeys : Cardinality(D) <= MaxDeps}

WorkflowDefinitions ==
    {<<PipelineStep("a", "llm", <<"x">>, da),
       PipelineStep("b", "code", <<"y">>, db),
       PipelineStep("c", "code", <<"z">>, dc)>> : da \in DepSets, db \in DepSets, dc \in DepSets}

\* The keys of the TurnContext given to run.
InitialContexts == {{<<"user_input">>}, {<<"user_input">>, <<"y">>}}

\* The keys of the JSON object an llm step may receive.
ResponseKeys == {"u"}

\* key.split('.')[0]
RECURSIVE split_first(_)
split_first(key) ==
    IF key = <<>> \/ Head(key) = "." THEN <<>> ELSE <<Head(key)>> \o split_first(Tail(key))

\* key.replace('.', '_')
replace_dots(key) == [i \in 1..Len(key) |-> IF key[i] = "." THEN "_" ELSE key[i]]

step_names(steps) == {steps[i].name : i \in 1..Len(steps)}

\* _build_dag, first loop: output_key -> the last step that declares it.
pipeline_output_to_step_map(steps) ==
    [k \in {steps[i].output_key : i \in 1..Len(steps)} |->
        steps[CHOOSE i \in 1..Len(steps) :
                  /\ steps[i].output_key = k
                  /\ \A j \in 1..Len(steps) : steps[j].output_key = k => j <= i].name]

\* _build_dag, the step a dependency key resolves to: <<>> is None.
source_step_name(steps, dep_key) ==
    LET m == pipeline_output_to_step_map(steps)
        k == IF \E i \in 1..Len(dep_key) : dep_key[i] = "." THEN split_first(dep_key) ELSE dep_key
    IN IF k \in DOMAIN m THEN <<m[k]>> ELSE <<>>

\* _build_dag: raises on a dependency that resolves to no step, and
\* otherwise returns dag, step -> the steps that depend on its output.
_build_dag(steps) ==
    IF \E i \in 1..Len(steps) : \E dep \in steps[i].dependencies :
            source_step_name(steps, dep) = <<>>
    THEN [raised |-> TRUE, dag |-> [n \in {} |-> {}]]
    ELSE [raised |-> FALSE,
          dag |-> [n \in step_names(steps) |->
                     {steps[i].name : i \in {j \in 1..Len(steps) :
                         \E dep \in steps[j].dependencies :
                             source_step_name(steps, dep) = <<n>>}}]]

\* The steps of names in the order of the definition.  The code iterates
\* over a set of names; the order only decides the order of the tasks in a
\* batch, and the tasks of a batch are run here in every order.
InDefinitionOrder(steps, names) ==
    LET Named(st) == st.name \in names
        sel == SelectSeq(steps, Named)
    IN [i \in 1..Len(sel) |-> sel[i].name]

\* _topological_sort, the while loop over the queue.
RECURSIVE KahnLoop(_, _, _, _, _)
KahnLoop(steps, dag, queue, in_degree, sorted_order) ==
    IF queue = <<>> THEN sorted_order
    ELSE LET u == Head(queue)
             deg == [v \in DOMAIN in_degree |->
                        IF v \in dag[u] THEN in_degree[v] - 1 ELSE in_degree[v]]
             freed == {v \in dag[u] : deg[v] = 0}
         IN KahnLoop(steps, dag, Tail(queue) \o InDefinitionOrder(steps, freed),
                     deg, Append(sorted_order, u))

\* _topological_sort: raises when the order leaves a step out.
_topological_sort(steps, dag) ==
    LET names == step_names(steps)
        in_degree == [v \in names |-> Cardinality({u \in names : v \in dag[u]})]
        sorted_order == KahnLoop(steps, dag,
                                 InDefinitionOrder(steps, {u \in names : in_degree[u] = 0}),
                                 in_degree, <<>>)
    IN [raised |-> Len(sorted_order) # Cardinality(names), order |-> sorted_order]

\* run, line 107: every dependency key of the step is an available key.
DepsAvailableAlways(st, keys) == TRUE
DepsAvailable(st, keys) == \A dep_key \in st.dependencies : replace_dots(dep_key) \in keys

PipelineStepByName(steps, n) == steps[CHOOSE i \in 1..Len(steps) : steps[i].name = n]

\* What executor.execute may do: raise, or set its keys in the context.  A
\* code step sets output_key; an llm step sets output_key and one granular
\* key per key of the response object.
ExecuteOutcomes(st) ==
    {[raised |-> TRUE, sets |-> {}]} \cup
    {[raised |-> FALSE,
      sets |-> {replace_dots(st.output_key)} \cup
               {replace_dots(st.output_key) \o <<"_", sub_key>> : sub_key \in subs}] :
        subs \in IF st.type = "llm" THEN SUBSET ResponseKeys ELSE {{}}}

NoBatch == <<>>

\* orchestrator = PipelineOrchestrator(definition, resources) is about to be
\* built and run with a context; nothing else is studied.
InitPipeline ==
    /\ IdleRun
    /\ NoClient
    /\ call = NoCall
    /\ workflow_definition \in WorkflowDefinitions
    /\ execution_order = <<>>
    /\ context \in InitialContexts
    /\ available_context_keys = {}
    /\ steps_to_run = <<>>
    /\ batch = NoBatch
    /\ executed = <<>>
    /\ ppc = "new"

\* PipelineOrchestrator.__init__: _build_dag, then _topological_sort.
Construct ==
    /\ ppc = "new"
    /\ LET b == _build_dag(workflow_definition) IN
       IF b.raised
       THEN /\ ppc' = "ValueError"
            /\ UNCHANGED execution_order
       ELSE LET t == _topological_sort(workflow_definition, b.dag) IN
            IF t.raised
            THEN /\ ppc' = "ValueError"
                 /\ UNCHANGED execution_order
            ELSE /\ ppc' = "ready"
                 /\ execution_order' = t.order
    /\ UNCHANGED <<runvars_of_run, llmvars, call, workflow_definition, context,
                   available_context_keys, steps_to_run, batch, executed>>

\* run, lines 95-99: up to the while loop.
RunBegin ==
    /\ ppc = "ready"
    /\ available_context_keys' = context
    /\ steps_to_run' = execution_order
    /\ ppc' = "loop"
    /\ UNCHANGED <<runvars_of_run, llmvars, call, workflow_definition, execution_order, context,
                   batch, executed>>

\* run, lines 101-120: one pass of the loop up to the await of gather, or
\* the deadlock RuntimeError of line 114.
BatchStart ==
    /\ ppc = "loop"
    /\ steps_to_run # <<>>
    /\ LET IsReady(n) == DepsAvailable(PipelineStepByName(workflow_definition, n),
                                       available_context_keys)
           NotReady(n) == ~IsReady(n)
           batch_to_run_names == SelectSeq(steps_to_run, IsReady)
           remaining_after_batch == SelectSeq(steps_to_run, NotReady)
       IN IF batch_to_run_names = <<>>
          THEN /\ ppc' = "RuntimeError"
               /\ UNCHANGED batch
          ELSE /\ ppc' = "gather"
               /\ batch' = [names |-> batch_to_run_names,
                            remaining |-> remaining_after_batch,
                            started_with |-> context,
                            task |-> [n \in Range(batch_to_run_names) |-> "pending"]]
    /\ UNCHANGED <<runvars_of_run, llmvars, call, workflow_definition, execution_order, context,
                   available_context_keys, steps_to_run, executed>>

\* A task of the gathered batch runs executor.execute.  gather cancels
\* nothing: the tasks still pending when run has raised run as well.
Execute(n) ==
    /\ batch # NoBatch
    /\ n \in DOMAIN batch.task
    /\ batch.task[n] = "pending"
    /\ \E o \in ExecuteOutcomes(PipelineStepByName(workflow_definition, n)) :
          /\ context' = context \cup o.sets
          /\ batch' = [batch EXCEPT !.task[n] = IF o.raised THEN "raised" ELSE "done"]
    /\ executed' = Append(executed, [name |-> n, started_with |-> batch.started_with])
    /\ UNCHANGED <<runvars_of_run, llmvars, call, workflow_definition, execution_order,
                   available_context_keys, steps_to_run, ppc>>

\* run, lines 120-127: gather returns, the keys of the context become
\* available and the loop goes on with the steps left.
GatherReturns ==
    /\ ppc = "gather"
    /\ \A n \in DOMAIN batch.task : batch.task[n] = "done"
    /\ available_context_keys' = available_context_keys \cup context
    /\ steps_to_run' = batch.remaining
    /\ batch' = NoBatch
    /\ ppc' = "loop"
    /\ UNCHANGED <<runvars_of_run, llmvars, call, workflow_definition, execution_order, context,
                   executed>>

\* run, line 120: gather raises the exception of a task, and so does run.
GatherRaises ==
    /\ ppc = "gather"
    /\ \E n \in DOMAIN batch.task : batch.task[n] = "raised"
    /\ ppc' = "StepError"
    /\ UNCHANGED <<runvars_of_run, llmvars, call, workflow_definition, execution_order, context,
                   available_context_keys, steps_to_run, batch, executed>>

\* run, lines 129-130: no step is left, run returns the context.
RunComplete ==
    /\ ppc = "loop"
    /\ steps_to_run = <<>>
    /\ ppc' = "complete"
    /\ UNCHANGED <<runvars_of_run, llmvars, call, workflow_definition, execution_order, context,
                   available_context_keys, steps_to_run, batch, executed>>

NextPipeline ==
    \/ Construct
    \/ RunBegin
    \/ BatchStart
    \/ \E n \in step_names(workflow_definition) : Execute(n)
    \/ GatherReturns
    \/ GatherRaises
    \/ RunComplete

\* The event loop runs every task that can run, and an executor returns or
\* raises.
SpecPipeline == InitPipeline /\ [][NextPipeline]_vars /\ WF_vars(NextPipeline)

\* t depends on s: a dependency key of t names the output of s, whole or
\* by one of its parts.
DependsOnOutputOf(t, s) ==
    \E dep \in t.dependencies : dep = s.output_key \/ split_first(dep) = s.output_key

\* A dependency key of some step names the output of no step.
HasUnresolvedDependency(steps) ==
    \E i \in Idx(steps) : \E dep \in steps[i].dependencies :
        \A j \in Idx(steps) : ~DependsOnOutputOf([steps[i] EXCEPT !.dependencies = {dep}], steps[j])

\* Some steps depend on one another in a circle.
HasDependencyCycle(steps) ==
    \E k \in Idx(steps) : \E p \in [1..k -> Idx(steps)] :
        \A i \in 1..k : DependsOnOutputOf(steps[p[i]], steps[p[(i % k) + 1]])

TimesExecuted(n) == Cardinality({k \in Idx(executed) : executed[k].name = n})

PipelineEnded == ppc \in {"ValueError", "complete", "RuntimeError", "StepError"}

\* Construction raises exactly for a cycle or an unresolved dependency; no
\* step is executed twice, and none in a batch that started while one of
\* its dependency keys was missing from the context; a run that returns has
\* executed every step.
PipelineSchedulesByDependencies ==
    /\ ppc # "new" =>
          (ppc = "ValueError" <=> (HasDependencyCycle(workflow_definition)
                                   \/ HasUnresolvedDependency(workflow_definition)))
    /\ ppc = "ValueError" => executed = <<>>
    /\ \A n \in step_names(workflow_definition) : TimesExecuted(n) <= 1
    /\ \A k \in Idx(executed) :
          \A dep_key \in PipelineStepByName(workflow_definition, executed[k].name).dependencies :
              replace_dots(dep_key) \in executed[k].started_with
    /\ ppc = "complete" =>
          \A n \in step_names(workflow_definition) : TimesExecuted(n) = 1

\* C40 as stated: construction fails for a cycle or an unresolved
\* dependency; otherwise run terminates, and it ends either having executed
\* every step exactly once, each in a batch started with its dependency
\* keys in the context, or with the deadlock RuntimeError, no step having
\* run without its dependency keys.
C40_RunCompletesOrDeadlocks ==
    /\ [](PipelineSchedulesByDependencies /\ ppc # "StepError")
    /\ <>PipelineEnded

\* C40 as the code has it: the run may also end with the exception a step
\* of the gathered batch raised; then a task of that batch did raise, the
\* steps left for later batches never run, and the steps of the batch run
\* at most once each.
C40_RunCompletesDeadlocksOrPropagates ==
    /\ [](/\ PipelineSchedulesByDependencies
          /\ ppc = "StepError" =>
                /\ \E n \in DOMAIN batch.task : batch.task[n] = "raised"
                /\ \A n \in Range(batch.remaining) : TimesExecuted(n) = 0)
    /\ <>PipelineEnded

\* A step raised while another step was still waiting for a later batch.
C40_Witness ==
    /\ ppc = "StepError"
    /\ executed # <<>>
    /\ batch.remaining # <<>>

====
